---- MODULE Spec2Model ----
(***************************************************************************)
(* Reservation application: the reservation store client (createReserva-   *)
(* tion, updateReservation), the legacy PHP update endpoint, the admin     *)
(* dashboard's sign-in checks, logout and reconciliation of realtime       *)
(* events, and the webhook relay.                                          *)
(***************************************************************************)
EXTENDS Integers, Sequences, FiniteSets, TLC

\* ------------------------------------------------------------------ bounds
MaxRows == 2
NumCallers == 2
MaxOps == 3
MaxErrors == 2
MaxFetches == 1
MaxHookFetches == 3
MaxRetryFetches == 9
MaxRelays == 2
MaxChecks == 2

\* --------------------------------------------------------------- constants
NULL == "null"
MarkerSet == "true"
StatusPending == "Pending"
ValidStatuses == {"Pending", "Confirmed", "Canceled", "Not Responding"}
Columns == {"id", "name", "phone", "date", "time_slot", "status", "manual_update"}

Callers == 1..NumCallers
Ids == 1..MaxRows

VARIABLES
  store,      \* the reservations table: id -> row
  nextId,     \* next id the table assigns
  created,    \* the last createReservation call: payload and result
  call,       \* updateReservation calls in flight, one per caller
  legacy,     \* the legacy endpoint's request in progress
  ops,        \* client operations started so far
  chans,      \* realtime channels the dashboard page opened: id -> state, inbox
  hookInbox,  \* change events queued for the useDashboard subscription
  page,       \* Dashboard page lifecycle: absent, mounting, mounted, leaving, unmounted
  reservations, loading, error,   \* Dashboard page state
  authFlags,  \* the local fast-path flags (localStorage, sessionStorage)
  refs,       \* authCheckedRef, dataFetchAttemptedRef, realtimeChannelRef
  authPc,     \* position of the checkAuth call in progress
  fetches,    \* fetchData calls in flight
  resubTimers,  \* pending resubscribe timers set by CHANNEL_ERROR
  tally,      \* counts of CHANNEL_ERROR callbacks, timer firings, setups,
              \* session calls made by checkAuth and the last one's
              \* result, auth checks passed
  hook,       \* useDashboard state: reservations, isLoading, error, retryCount
  hookFetches,  \* useDashboard fetchReservations calls in flight
  hookTimers, \* pending useDashboard retry timers (the closure's retryCount)
  deployed,   \* the relay the database webhook calls: off, marker, unconditional
  relayQueue, \* webhook requests the database trigger has queued
  relays,     \* relay invocations in progress
  posts,      \* POST requests issued to the external URL, by event type
  logout      \* position of handleLogout

storeVars == <<store, nextId>>
clientVars == <<created, call, legacy, ops>>
feedVars == <<chans, hookInbox, relayQueue>>
relayVars == <<deployed, relays, posts>>
pageVars == <<page, reservations, loading, error, authFlags, refs, authPc,
              fetches, resubTimers, tally>>
hookVars == <<hook, hookFetches, hookTimers>>
vars == <<store, nextId, created, call, legacy, ops, chans, hookInbox, page,
          reservations, loading, error, authFlags, refs, authPc, fetches,
          resubTimers, tally, hook, hookFetches, hookTimers, deployed,
          relayQueue, relays, posts, logout>>

\* ---------------------------------------------------------------- helpers
Truthy(v) == v # ""

\* obj with key k set to v (JavaScript { ...obj, k: v })
With(obj, k, v) ==
  [x \in DOMAIN obj \cup {k} |-> IF x = k THEN v ELSE obj[x]]

\* obj without key k (JavaScript delete obj.k)
Without(obj, k) == [x \in DOMAIN obj \ {k} |-> obj[x]]

\* row with the given columns overwritten (SQL UPDATE ... SET)
Patch(row, fields) ==
  [x \in DOMAIN row |-> IF x \in DOMAIN fields THEN fields[x] ELSE row[x]]

\* The table rejects a write that names a column it does not have.
StoreAccepts(fields) == DOMAIN fields \subseteq Columns

\* UPDATE reservations SET fields WHERE id = id
StoreUpdate(st, id, fields) ==
  IF id \in DOMAIN st THEN [st EXCEPT ![id] = Patch(st[id], fields)] ELSE st

\* ------------------------------------------------------- realtime feed
\* the record a change event carries: the row with its id
EventRow(id, row) == With(row, "id", id)

\* the webhook request body for a change event: { type, record, old? }
WebhookBody(ev) ==
  [type |-> ev.type, record |-> ev.new, hasOld |-> ev.type = "UPDATE"]

\* the table's change feed: one event per written row, to every subscribed
\* channel, to the useDashboard subscription and to the database webhook
Published(evs) ==
  /\ relayQueue' = IF deployed = "off" THEN relayQueue
                   ELSE relayQueue \o [i \in 1..Len(evs) |-> WebhookBody(evs[i])]
  /\ chans' = [ch \in DOMAIN chans |->
       IF chans[ch].state = "joined"
       THEN [chans[ch] EXCEPT !.inbox = @ \o evs] ELSE chans[ch]]
  /\ hookInbox' = IF hook.state = "mounted" THEN hookInbox \o evs ELSE hookInbox

UpdateEvents(st, id) ==
  IF id \in DOMAIN st
  THEN <<[type |-> "UPDATE", new |-> EventRow(id, st[id])]>> ELSE <<>>

\* ------------------------------------------------------ createReservation
CreatePayloads ==
  { [name |-> "Alice", phone |-> "612345678", date |-> "01/06/2025",
     timeSlot |-> "8h00-11h00"],
    [name |-> "Bob", phone |-> "abc", date |-> "01/06/2025",
     timeSlot |-> "8h00-11h00", status |-> "Confirmed"] }

\* faulty variant: the inserted object takes the payload's status
CallerStatusRow(reservationData) ==
  [name |-> reservationData.name,
   phone |-> reservationData.phone,
   date |-> reservationData.date,
   time_slot |-> reservationData.timeSlot,
   status |-> IF "status" \in DOMAIN reservationData
              THEN reservationData.status ELSE StatusPending,
   manual_update |-> NULL]

\* the object createReservation inserts
InsertRow(reservationData) ==
  [name |-> reservationData.name,
   phone |-> reservationData.phone,
   date |-> reservationData.date,
   time_slot |-> reservationData.timeSlot,
   status |-> StatusPending,
   manual_update |-> NULL]

createReservation(reservationData, outcome) ==
  /\ ops < MaxOps
  /\ nextId <= MaxRows
  /\ ops' = ops + 1
  /\ IF outcome = "ok"
     THEN /\ store' = With(store, nextId, InsertRow(reservationData))
          /\ nextId' = nextId + 1
          /\ created' = [payload |-> reservationData, success |-> TRUE,
                         id |-> nextId]
          /\ Published(<<[type |-> "INSERT",
                          new |-> EventRow(nextId, InsertRow(reservationData))]>>)
     ELSE /\ UNCHANGED <<storeVars, feedVars>>
          /\ created' = [payload |-> reservationData, success |-> FALSE,
                         id |-> 0]
  /\ UNCHANGED <<relayVars, logout, call, legacy, pageVars, hookVars>>

\* ------------------------------------------------------ updateReservation
Idle == [pc |-> "idle"]

UpdateInputs ==
  { [status |-> "Confirmed"],
    [status |-> "Canceled"],
    [phone |-> "abc"],
    [date |-> "2025-06-01"],
    [timeSlot |-> "20h00-23h00"],
    [status |-> "Not Responding", timeSlot |-> "11h00-14h00"],
    [name |-> "Bob"] }

RenameTimeSlot(updates) ==
  IF "timeSlot" \in DOMAIN updates /\ Truthy(updates.timeSlot)
  THEN Without(With(updates, "time_slot", updates.timeSlot), "timeSlot")
  ELSE updates

HasStatus(updates) == "status" \in DOMAIN updates /\ Truthy(updates.status)

\* faulty variant: the marker is left out of the write
NoMarkerUpdates(updates) == RenameTimeSlot(updates)

\* supabaseUpdates as updateReservation builds it
SupabaseUpdates(updates) ==
  IF HasStatus(updates)
  THEN With(RenameTimeSlot(updates), "manual_update", MarkerSet)
  ELSE RenameTimeSlot(updates)

Fail(msg) == [success |-> FALSE, message |-> msg]

\* faulty variant: a session error is not looked at
SessionErrorIgnored(outcome) == outcome = "none"

\* sessionError || !sessionData.session
NotAuthenticated(outcome) == outcome \in {"none", "error"}
Success == [success |-> TRUE, message |-> "Reservation updated successfully"]

UpdateBegin(c, id, updates, sess) ==
  /\ call[c].pc = "idle"
  /\ ops < MaxOps
  /\ ops' = ops + 1
  /\ call' = [call EXCEPT ![c] =
       IF sess # "throw" /\ ~NotAuthenticated(sess)
       THEN [pc |-> "write", id |-> id, updates |-> updates,
             fields |-> SupabaseUpdates(updates), nwrites |-> 0,
             nreads |-> 0, seen |-> NULL, changed |-> FALSE,
             backendError |-> sess = "error", session |-> sess]
       ELSE [pc |-> "done", id |-> id, updates |-> updates,
             fields |-> SupabaseUpdates(updates), nwrites |-> 0,
             nreads |-> 0, seen |-> NULL, changed |-> FALSE,
             backendError |-> sess \in {"error", "throw"},
             session |-> sess,
             result |-> IF sess = "throw"
                        THEN Fail("Network error. Please try again.")
                        ELSE Fail("Not authenticated")]]
  /\ UNCHANGED <<relayVars, logout, storeVars, created, legacy, feedVars,
                 pageVars, hookVars>>

Finish(rec, res) ==
  [pc |-> "done", id |-> rec.id, updates |-> rec.updates,
   fields |-> rec.fields, nwrites |-> rec.nwrites, nreads |-> rec.nreads,
   seen |-> rec.seen, changed |-> rec.changed,
   backendError |-> rec.backendError, session |-> rec.session,
   result |-> res]

UpdateWrite(c, outcome) ==
  /\ call[c].pc = "write"
  /\ LET rec == [call[c] EXCEPT !.nwrites = @ + 1,
                               !.backendError = @ \/
                                 ~(outcome = "ok"
                                   /\ StoreAccepts(call[c].fields))] IN
     IF outcome = "ok" /\ StoreAccepts(rec.fields)
     THEN /\ store' = StoreUpdate(store, rec.id, rec.fields)
          /\ Published(UpdateEvents(store', rec.id))
          /\ call' = [call EXCEPT ![c] =
               [rec EXCEPT !.pc = "verify",
                           !.changed = @ \/ store' # store]]
     ELSE /\ UNCHANGED <<store, feedVars>>
          /\ call' = [call EXCEPT ![c] =
               Finish(rec, IF outcome = "throw"
                           THEN Fail("Network error. Please try again.")
                           ELSE Fail("Error updating reservation"))]
  /\ UNCHANGED <<relayVars, logout, nextId, created, legacy, ops, pageVars,
                 hookVars>>

\* faulty variant: the retry does not look at the status read back
AlwaysRetry(updates, observed) == HasStatus(updates)

\* updates.status && verificationData.status !== updates.status
NeedsRetry(updates, observed) ==
  HasStatus(updates) /\ observed # updates.status

UpdateVerify(c, outcome) ==
  /\ call[c].pc = "verify"
  /\ LET rec == [call[c] EXCEPT !.nreads = @ + 1,
                               !.backendError = @ \/ outcome # "ok"] IN
     call' = [call EXCEPT ![c] =
       IF outcome = "throw"
       THEN Finish(rec, Fail("Network error. Please try again."))
       ELSE IF outcome = "error" \/ rec.id \notin DOMAIN store
       THEN Finish(rec, Success)
       ELSE LET observed == store[rec.id].status
                rec2 == [rec EXCEPT !.seen = observed] IN
            IF NeedsRetry(rec.updates, observed)
            THEN [rec2 EXCEPT !.pc = "retry"]
            ELSE Finish(rec2, Success)]
  /\ UNCHANGED <<relayVars, logout, storeVars, created, legacy, ops, feedVars,
                 pageVars, hookVars>>

UpdateRetry(c, outcome) ==
  /\ call[c].pc = "retry"
  /\ LET fields == With(call[c].fields, "manual_update", MarkerSet)
         rec == [call[c] EXCEPT !.nwrites = @ + 1,
                               !.backendError = @ \/
                                 ~(outcome = "ok" /\ StoreAccepts(fields))] IN
     /\ IF outcome = "ok" /\ StoreAccepts(fields)
        THEN /\ store' = StoreUpdate(store, rec.id, fields)
             /\ Published(UpdateEvents(store', rec.id))
        ELSE UNCHANGED <<store, feedVars>>
     /\ call' = [call EXCEPT ![c] =
          Finish([rec EXCEPT !.changed = @ \/ store' # store],
                 IF outcome = "throw"
                 THEN Fail("Network error. Please try again.")
                 ELSE Success)]
  /\ UNCHANGED <<relayVars, logout, nextId, created, legacy, ops, pageVars,
                 hookVars>>

\* { ...res, ...updatedData }
Merged(res, updatedData) ==
  [k \in DOMAIN res \cup DOMAIN updatedData |->
     IF k \in DOMAIN updatedData THEN updatedData[k] ELSE res[k]]

\* faulty variant: the patch is applied to every entry
PatchedAll(list, id, updatedData) ==
  [i \in 1..Len(list) |-> Merged(list[i], updatedData)]

PatchedList(list, id, updatedData) ==
  [i \in 1..Len(list) |->
     IF list[i].id = id THEN Merged(list[i], updatedData) ELSE list[i]]

DashCaller == 1
Alive == page \in {"mounted", "leaving"}

\* the caller's continuation; in the Dashboard page (handleStatusChange,
\* handleUpdate) a successful result patches the in-memory entry
UpdateReturn(c) ==
  /\ call[c].pc = "done"
  /\ call' = [call EXCEPT ![c] = Idle]
  /\ reservations' =
       IF c = DashCaller /\ Alive /\ call[c].result.success
       THEN PatchedList(reservations, call[c].id, call[c].updates)
       ELSE reservations
  /\ UNCHANGED <<relayVars, logout, storeVars, created, legacy, ops, feedVars,
                 hookVars, page, loading, error, authFlags, refs, authPc,
                 fetches, resubTimers, tally>>

\* -------------------------------------------------- legacy update endpoint
Digits == {"0", "1", "2", "3", "4", "5", "6", "7", "8", "9"}
IsDigits(s) == \A i \in 1..Len(s) : SubSeq(s, i, i) \in Digits

\* faulty variant: digits of any length
AnyDigitsPhone(s) == IsDigits(s)

\* preg_match('/^\d{9,10}$/', $phone)
MatchPhone(s) == Len(s) \in 9..10 /\ IsDigits(s)

\* preg_match('/^\d{2}\/\d{2}\/\d{4}$/', $date)
MatchDate(s) ==
  /\ Len(s) = 10
  /\ IsDigits(SubSeq(s, 1, 2)) /\ SubSeq(s, 3, 3) = "/"
  /\ IsDigits(SubSeq(s, 4, 5)) /\ SubSeq(s, 6, 6) = "/"
  /\ IsDigits(SubSeq(s, 7, 10))

validStatuses == {"Pending", "Confirmed", "Canceled", "Not Responding"}
validTimeSlots == {"8h00-11h00", "11h00-14h00", "14h00-16h00"}

\* PHP empty() on a string or number; isset() is membership in the body
PhpEmpty(v) == v = "" \/ v = "0"
Provided(data, k) == k \in DOMAIN data /\ ~PhpEmpty(data[k])
is_numeric(v) == Len(v) > 0 /\ IsDigits(v)

\* (int)$data['id'] for a numeric text
DigitValue(c) == CHOOSE n \in 0..9 : SubSeq("0123456789", n + 1, n + 1) = c
RECURSIVE IntVal(_)
IntVal(s) ==
  IF Len(s) = 0 THEN 0
  ELSE 10 * IntVal(SubSeq(s, 1, Len(s) - 1)) + DigitValue(SubSeq(s, Len(s), Len(s)))

\* sanitizeInput lives in utils/auth.php; the request texts used here hold
\* no surrounding blanks, markup or quotes for it to change.
sanitizeInput(s) == s

LegacyBodies ==
  { [id |-> "1", status |-> "Confirmed"],
    [id |-> "1", status |-> "Bogus"],
    [id |-> "1", status |-> "Canceled", phone |-> "abc"],
    [id |-> "1", phone |-> "12345678"],
    [id |-> "1", phone |-> "06123456789"],
    [id |-> "1", phone |-> "0612345678"],
    [id |-> "1", date |-> "2025-06-01"],
    [id |-> "1", date |-> "1/6/2025"],
    [id |-> "1", date |-> "02/06/2025", timeSlot |-> "11h00-14h00"],
    [id |-> "1", timeSlot |-> "20h00-23h00"],
    [id |-> "1", name |-> "Bob", phone |-> ""],
    [id |-> "1", name |-> "Bob", date |-> "0"],
    [id |-> "1", name |-> "Bob", status |-> ""],
    [id |-> "1"],
    [id |-> "abc", status |-> "Confirmed"],
    [id |-> "2", status |-> "Not Responding"],
    [status |-> "Confirmed"] }

Response(code, ok, msg) == [code |-> code, success |-> ok, message |-> msg]

\* faulty variant: the status is not validated
NoStatusCheck(data) == "ok"

\* in_array($status, $validStatuses) on a status that is set and not empty
StatusCheck(data) ==
  IF Provided(data, "status")
     /\ sanitizeInput(data.status) \notin validStatuses
  THEN "Invalid status value" ELSE "ok"

PhoneCheck(data) ==
  IF Provided(data, "phone") /\ ~MatchPhone(sanitizeInput(data.phone))
  THEN "Invalid phone number format" ELSE "ok"

DateCheck(data) ==
  IF Provided(data, "date") /\ ~MatchDate(sanitizeInput(data.date))
  THEN "Invalid date format. Use DD/MM/YYYY" ELSE "ok"

TimeSlotCheck(data) ==
  IF Provided(data, "timeSlot")
     /\ sanitizeInput(data.timeSlot) \notin validTimeSlots
  THEN "Invalid time slot" ELSE "ok"

\* the first validation message the script exits on, in the script's order
FirstError(data) ==
  IF StatusCheck(data) # "ok" THEN StatusCheck(data)
  ELSE IF PhoneCheck(data) # "ok" THEN PhoneCheck(data)
  ELSE IF DateCheck(data) # "ok" THEN DateCheck(data)
  ELSE TimeSlotCheck(data)

\* the columns the script puts in $updates / $params for a status
StatusSets(data) ==
  [status |-> sanitizeInput(data.status), manual_update |-> MarkerSet]

\* the SET clause: column -> parameter, for the fields that were provided
LegacySets(data) ==
  LET base == IF Provided(data, "status") THEN StatusSets(data) ELSE <<>>
      s1 == IF Provided(data, "name")
            THEN With(base, "name", sanitizeInput(data.name)) ELSE base
      s2 == IF Provided(data, "phone")
            THEN With(s1, "phone", sanitizeInput(data.phone)) ELSE s1
      s3 == IF Provided(data, "date")
            THEN With(s2, "date", sanitizeInput(data.date)) ELSE s2
  IN IF Provided(data, "timeSlot")
     THEN With(s3, "time_slot", sanitizeInput(data.timeSlot)) ELSE s3

\* authenticateRequest lives in utils/auth.php: a caller it does not accept
\* gets no further than this line.
authenticateRequest(auth) == auth

LegacyDone(req, resp) ==
  [pc |-> "done", method |-> req.method, auth |-> req.auth,
   data |-> req.data, sets |-> req.sets, nwrites |-> req.nwrites,
   nreads |-> req.nreads, seen |-> req.seen, resp |-> resp]

\* the script up to the try block: method, authentication, validation
LegacyRequest(method, auth, data) ==
  /\ legacy.pc = "idle"
  /\ ops < MaxOps
  /\ ops' = ops + 1
  /\ LET req == [pc |-> "update", method |-> method, auth |-> auth,
                 data |-> data, sets |-> <<>>, nwrites |-> 0, nreads |-> 0,
                 seen |-> NULL]
     IN legacy' =
       IF method = "OPTIONS" THEN LegacyDone(req, Response(200, FALSE, ""))  \* preflight: no body
       ELSE IF method \notin {"POST", "PUT"}
       THEN LegacyDone(req, Response(405, FALSE, "Method not allowed"))
       ELSE IF ~authenticateRequest(auth)
       THEN LegacyDone(req, Response(401, FALSE, "Unauthorized"))
       ELSE IF ~Provided(data, "id") \/ ~is_numeric(data.id)
       THEN LegacyDone(req, Response(400, FALSE, "Invalid reservation ID"))
       ELSE IF FirstError(data) # "ok"
       THEN LegacyDone(req, Response(400, FALSE, FirstError(data)))
       ELSE IF LegacySets(data) = <<>>
       THEN LegacyDone(req, Response(400, FALSE, "No updates provided"))
       ELSE [req EXCEPT !.sets = LegacySets(data)]
  /\ UNCHANGED <<relayVars, logout, storeVars, created, call, feedVars,
                 pageVars, hookVars>>

\* rowCount() of the UPDATE: the driver counts the rows it matched
\* (foundRows) or only the rows whose values changed.
RowCount(st, id, sets, foundRows) ==
  IF id \notin DOMAIN st THEN 0
  ELSE IF foundRows \/ Patch(st[id], sets) # st[id] THEN 1 ELSE 0

LegacyUpdate(outcome, foundRows) ==
  /\ legacy.pc = "update"
  /\ LET req == [legacy EXCEPT !.nwrites = @ + 1]
         id == IntVal(req.data.id) IN
     IF outcome # "ok"
     THEN /\ UNCHANGED <<store, feedVars>>
          /\ legacy' = LegacyDone(req,
               Response(500, FALSE, "Error updating reservation"))
     ELSE /\ store' = StoreUpdate(store, id, req.sets)
          /\ Published(UpdateEvents(store', id))
          /\ legacy' =
               IF RowCount(store, id, req.sets, foundRows) = 0
               THEN LegacyDone(req, Response(404, FALSE, "Reservation not found"))
               ELSE [req EXCEPT !.pc = "verify"]
  /\ UNCHANGED <<relayVars, logout, nextId, created, call, ops, pageVars,
                 hookVars>>

\* isset($data['status']) && $verifiedData && status differs
LegacyNeedsRetry(data, found, observed) ==
  "status" \in DOMAIN data /\ found /\ observed # data.status

LegacyVerify(outcome) ==
  /\ legacy.pc = "verify"
  /\ LET req == [legacy EXCEPT !.nreads = @ + 1]
         id == IntVal(req.data.id)
         found == id \in DOMAIN store
         observed == IF found THEN store[id].status ELSE NULL IN
     legacy' =
       IF outcome # "ok"
       THEN LegacyDone(req, Response(500, FALSE, "Error updating reservation"))
       ELSE IF LegacyNeedsRetry(req.data, found, observed)
       THEN [req EXCEPT !.pc = "retry", !.seen = observed]
       ELSE LegacyDone([req EXCEPT !.seen = observed],
                       Response(200, TRUE, "Reservation updated successfully"))
  /\ UNCHANGED <<relayVars, logout, storeVars, created, call, ops, feedVars,
                 pageVars, hookVars>>

LegacyRetry(outcome) ==
  /\ legacy.pc = "retry"
  /\ LET req == [legacy EXCEPT !.nwrites = @ + 1] IN
     IF outcome # "ok"
     THEN /\ UNCHANGED <<store, feedVars>>
          /\ legacy' = LegacyDone(req,
               Response(500, FALSE, "Error updating reservation"))
     ELSE /\ store' = StoreUpdate(store, IntVal(req.data.id), req.sets)
          /\ Published(UpdateEvents(store', IntVal(req.data.id)))
          /\ legacy' = LegacyDone(req,
               Response(200, TRUE, "Reservation updated successfully"))
  /\ UNCHANGED <<relayVars, logout, nextId, created, call, ops, pageVars,
                 hookVars>>

LegacyReturn ==
  /\ legacy.pc = "done"
  /\ legacy' = Idle
  /\ UNCHANGED <<relayVars, logout, storeVars, created, call, ops, feedVars,
                 pageVars, hookVars>>

\* ------------------------------------------------------- Dashboard page
NoChannel == 0
TimeoutMessage == "Loading timed out. Please try refreshing the page."
NetworkMessage == "Network error. Please try again."

\* transformReservationRecord: a change-event record as a Reservation
transformReservationRecord(record) ==
  [id |-> record.id, name |-> record.name, phone |-> record.phone,
   date |-> record.date, timeSlot |-> record.time_slot,
   status |-> record.status]

\* select('*').order('created_at', descending), mapped to Reservations
FetchedRows(st) ==
  LET ids == DOMAIN st IN
  [i \in 1..Cardinality(ids) |->
     LET id == CHOOSE x \in ids : Cardinality({y \in ids : y > x}) = i - 1
     IN [id |-> id, name |-> st[id].name, phone |-> st[id].phone,
         date |-> st[id].date, timeSlot |-> st[id].time_slot,
         status |-> st[id].status]]

\* utils/authUtils: the local fast-path flags
isAuthenticated == authFlags.local \/ authFlags.session
FlagsSet == [local |-> TRUE, session |-> TRUE]
FlagsCleared == [local |-> FALSE, session |-> FALSE]

\* navigate('/admin'): the page is unmounted at the next commit
Navigated == IF page = "unmounted" THEN page ELSE "leaving"

\* removeRealtimeSubscription: removeChannel on the referenced channel; the
\* promise settles later (RemoveDone)
Removing(chs, ref) ==
  IF ref = NoChannel THEN chs
  ELSE [chs EXCEPT ![ref].state = "leaving", ![ref].removals = @ + 1]

\* handled: the last event a callback ran with, and whether its id was listed
NoEvent == [type |-> "none", id |-> 0, hit |-> FALSE]
Handled(ev, list) ==
  [type |-> ev.type, id |-> ev.new.id,
   hit |-> \E i \in 1..Len(list) : list[i].id = ev.new.id]

NewChannel ==
  [state |-> "joining", inbox |-> <<>>, removals |-> 0, handled |-> NoEvent]

\* setupRealtimeSubscription: tear down the referenced channel, open a new
\* one, point the reference at it
SetupRealtimeSubscription ==
  /\ chans' = Append(Removing(chans, refs.channel), NewChannel)
  /\ refs' = [refs EXCEPT !.channel = Len(chans) + 1]

\* fetchData up to its await: setLoading(true), setError(null)
FetchDataStarted(thenSetup) ==
  /\ loading' = IF Alive THEN TRUE ELSE loading
  /\ error' = IF Alive THEN NULL ELSE error
  /\ fetches' = Append(fetches, [pc |-> "session", thenSetup |-> thenSetup,
                                 session |-> NULL, reads |-> 0])

\* faulty variant: the backend is asked without looking at the local flags
CheckAuthNoLocalCheck ==
  /\ authPc' = "session"
  /\ page' = "mounted"
  /\ tally' = [tally EXCEPT !.sessionCalls = @ + 1]
  /\ UNCHANGED authFlags

\* checkAuth up to its await, on mount and on each interval tick
CheckAuthBegin ==
  IF ~isAuthenticated
  THEN /\ authFlags' = FlagsCleared
       /\ page' = "leaving"
       /\ authPc' = "idle"
       /\ UNCHANGED tally
  ELSE /\ authPc' = "session"
       /\ page' = "mounted"
       /\ tally' = [tally EXCEPT !.sessionCalls = @ + 1]
       /\ UNCHANGED authFlags

Mount ==
  /\ page = "mounting"
  /\ CheckAuthBegin
  /\ UNCHANGED <<relayVars, logout, storeVars, clientVars, feedVars, hookVars,
                 reservations, loading, error, refs, fetches, resubTimers>>

AuthTick ==
  /\ page = "mounted" /\ authPc = "idle"
  /\ tally.passes < MaxChecks
  /\ CheckAuthBegin
  /\ UNCHANGED <<relayVars, logout, storeVars, clientVars, feedVars, hookVars,
                 reservations, loading, error, refs, fetches, resubTimers>>

\* faulty variant: only a reported or thrown error fails the check
ErrorOnlyFails(outcome) == outcome \notin {"error", "throw"}

\* neither `error` nor a missing data.session, and nothing thrown
SessionVerified(outcome) == outcome = "session"

\* faulty variant: every successful check loads and subscribes
EveryCheckLoads == TRUE

\* if (!authCheckedRef.current)
FirstSuccessfulCheck == ~refs.authChecked

\* checkAuth after getSession resolves
CheckAuthSession(outcome) ==
  /\ authPc = "session"
  /\ authPc' = "idle"
  /\ IF ~SessionVerified(outcome)
     THEN /\ authFlags' = FlagsCleared
          /\ page' = Navigated
          /\ tally' = [tally EXCEPT !.sessionResult = outcome]
          /\ UNCHANGED <<refs, loading, error, fetches>>
     ELSE /\ authFlags' = FlagsSet
          /\ tally' = [tally EXCEPT !.passes = @ + 1,
                                    !.sessionResult = outcome]
          /\ UNCHANGED page
          /\ IF FirstSuccessfulCheck
             THEN /\ refs' = [refs EXCEPT !.authChecked = TRUE,
                                          !.dataFetchAttempted = TRUE]
                  /\ FetchDataStarted(TRUE)
             ELSE UNCHANGED <<refs, loading, error, fetches>>
  /\ UNCHANGED <<relayVars, logout, storeVars, clientVars, feedVars, hookVars,
                 reservations, resubTimers>>

\* fetchReservations: getSession
FetchSession(i, outcome) ==
  /\ i \in DOMAIN fetches /\ fetches[i].pc = "session"
  /\ fetches' = [fetches EXCEPT ![i] =
       IF outcome = "throw"
       THEN [pc |-> "result", thenSetup |-> @.thenSetup,
             session |-> outcome, reads |-> 0,
             result |-> Fail(NetworkMessage)]
       ELSE IF NotAuthenticated(outcome)
       THEN [pc |-> "result", thenSetup |-> @.thenSetup,
             session |-> outcome, reads |-> 0,
             result |-> Fail("Not authenticated")]
       ELSE [@ EXCEPT !.pc = "select", !.session = outcome]]
  /\ UNCHANGED <<relayVars, logout, storeVars, clientVars, feedVars, hookVars,
                 page, reservations, loading, error, authFlags, refs, authPc,
                 resubTimers, tally>>

\* fetchReservations: the select and the mapping of its rows
FetchSelect(i, outcome) ==
  /\ i \in DOMAIN fetches /\ fetches[i].pc = "select"
  /\ fetches' = [fetches EXCEPT ![i] =
       [pc |-> "result", thenSetup |-> @.thenSetup,
        session |-> @.session, reads |-> @.reads + 1,
        result |-> IF outcome = "ok"
                   THEN [success |-> TRUE, data |-> FetchedRows(store)]
                   ELSE IF outcome = "throw" THEN Fail(NetworkMessage)
                   ELSE Fail("Error fetching reservations")]]
  /\ UNCHANGED <<relayVars, logout, storeVars, clientVars, feedVars, hookVars,
                 page, reservations, loading, error, authFlags, refs, authPc,
                 resubTimers, tally>>

RemoveAt(seq, i) == SubSeq(seq, 1, i - 1) \o SubSeq(seq, i + 1, Len(seq))

\* fetchData after fetchReservations resolves, then checkAuth's
\* setupRealtimeSubscription when this is the first fetch
FetchComplete(i) ==
  /\ i \in DOMAIN fetches /\ fetches[i].pc = "result"
  /\ LET r == fetches[i].result
         unauth == ~r.success /\ r.message = "Not authenticated" IN
     /\ reservations' = IF Alive /\ r.success THEN r.data ELSE reservations
     /\ error' = IF Alive /\ ~r.success /\ ~unauth THEN r.message ELSE error
     /\ loading' = IF Alive THEN FALSE ELSE loading
     /\ authFlags' = IF unauth THEN FlagsCleared ELSE authFlags
     /\ page' = IF unauth THEN Navigated ELSE page
  /\ fetches' = RemoveAt(fetches, i)
  /\ IF fetches[i].thenSetup
     THEN /\ SetupRealtimeSubscription
          /\ tally' = [tally EXCEPT !.setups = @ + 1]
     ELSE UNCHANGED <<chans, refs, tally>>
  /\ UNCHANGED <<relayVars, logout, storeVars, clientVars, hookInbox,
                 relayQueue, hookVars, authPc, resubTimers>>

\* the post-load effect: an empty list with no error refetches
PostLoadCheck ==
  /\ Alive /\ Len(reservations) = 0 /\ ~loading /\ error = NULL
  /\ refs.authChecked /\ refs.dataFetchAttempted
  /\ Len(fetches) < MaxFetches
  /\ FetchDataStarted(FALSE)
  /\ UNCHANGED <<relayVars, logout, storeVars, clientVars, feedVars, hookVars,
                 page, reservations, authFlags, refs, authPc, resubTimers,
                 tally>>

\* the Try Again and Refresh buttons
UserRefresh ==
  /\ Alive /\ ~loading /\ (error # NULL \/ Len(reservations) = 0)
  /\ Len(fetches) < MaxFetches
  /\ FetchDataStarted(FALSE)
  /\ UNCHANGED <<relayVars, logout, storeVars, clientVars, feedVars, hookVars,
                 page, reservations, authFlags, refs, authPc, resubTimers,
                 tally>>

\* faulty variant: the timeout sets its message and leaves loading as it is
WatchdogErrorOnly ==
  /\ Alive /\ loading
  /\ error' = TimeoutMessage
  /\ UNCHANGED <<relayVars, logout, storeVars, clientVars, feedVars, hookVars,
                 page, loading, reservations, authFlags, refs, authPc,
                 fetches, resubTimers, tally>>

\* the loading timeout: armed while the page is mounted and loading
WatchdogFire ==
  /\ Alive /\ loading
  /\ loading' = FALSE
  /\ error' = TimeoutMessage
  /\ UNCHANGED <<relayVars, logout, storeVars, clientVars, feedVars, hookVars,
                 page, reservations, authFlags, refs, authPc, fetches,
                 resubTimers, tally>>

\* faulty variant: CHANNEL_ERROR resubscribes at once, with no timer
ResubscribeNow(ch) ==
  /\ ch \in DOMAIN chans
  /\ chans[ch].state \in {"joining", "joined", "errored"}
  /\ tally.chanErrors < MaxErrors
  /\ chans' = Append(Removing([chans EXCEPT ![ch].state = "errored"],
                              refs.channel), NewChannel)
  /\ refs' = [refs EXCEPT !.channel = Len(chans) + 1]
  /\ tally' = [tally EXCEPT !.chanErrors = @ + 1, !.setups = @ + 1]
  /\ UNCHANGED <<relayVars, logout, storeVars, clientVars, hookInbox,
                 relayQueue, hookVars, page, reservations, loading, error,
                 authFlags, authPc, fetches, resubTimers>>

\* the subscribe callback on CHANNEL_ERROR: setTimeout(setup, 5000)
ChannelError(ch) ==
  /\ ch \in DOMAIN chans
  /\ chans[ch].state \in {"joining", "joined", "errored"}
  /\ tally.chanErrors < MaxErrors
  /\ chans' = [chans EXCEPT ![ch].state = "errored"]
  /\ resubTimers' = resubTimers + 1
  /\ tally' = [tally EXCEPT !.chanErrors = @ + 1]
  /\ UNCHANGED <<relayVars, logout, storeVars, clientVars, hookInbox,
                 relayQueue, hookVars, page, reservations, loading, error,
                 authFlags, refs, authPc, fetches>>

\* the subscribe callback on SUBSCRIBED
ChannelSubscribed(ch) ==
  /\ ch \in DOMAIN chans
  /\ chans[ch].state \in {"joining", "errored"}
  /\ chans' = [chans EXCEPT ![ch].state = "joined"]
  /\ UNCHANGED <<relayVars, logout, storeVars, clientVars, hookInbox,
                 relayQueue, hookVars, pageVars>>

\* the resubscribe timer fires
ResubscribeTimer ==
  /\ resubTimers > 0
  /\ resubTimers' = resubTimers - 1
  /\ SetupRealtimeSubscription
  /\ tally' = [tally EXCEPT !.timerFires = @ + 1, !.setups = @ + 1]
  /\ UNCHANGED <<relayVars, logout, storeVars, clientVars, hookInbox,
                 relayQueue, hookVars, page, reservations, loading, error,
                 authFlags, authPc, fetches>>

\* removeChannel settles: .then clears the reference, .catch logs
RemoveDone(ch, outcome) ==
  /\ ch \in DOMAIN chans /\ chans[ch].removals > 0
  /\ IF outcome = "ok"
     THEN /\ chans' = [chans EXCEPT ![ch].removals = @ - 1,
                                    ![ch].state = "closed",
                                    ![ch].inbox = <<>>]
          /\ refs' = [refs EXCEPT !.channel = NoChannel]
     ELSE /\ chans' = [chans EXCEPT ![ch].removals = @ - 1]
          /\ UNCHANGED refs
  /\ UNCHANGED <<relayVars, logout, storeVars, clientVars, hookInbox,
                 relayQueue, hookVars, page, reservations, loading, error,
                 authFlags, authPc, fetches, resubTimers, tally>>

\* the auth effect's cleanup once the navigation commits
Unmount ==
  /\ page = "leaving"
  /\ page' = "unmounted"
  /\ chans' = Removing(chans, refs.channel)
  /\ UNCHANGED <<relayVars, logout, storeVars, clientVars, hookInbox,
                 relayQueue, hookVars, reservations, loading, error,
                 authFlags, refs, authPc, fetches, resubTimers, tally>>

\* logoutAdmin: signOut, then both flags removed only when it reported no
\* error; a reported or thrown error returns a failure with the flags as
\* they were
logoutAdmin(outcome, flags) ==
  [success |-> outcome = "ok",
   flags |-> IF outcome = "ok" THEN FlagsCleared ELSE flags]

\* faulty variant: handleLogout relies on logoutAdmin to clear the flags
FlagsFromLogoutAdmin(result) == result.flags

\* handleLogout after logoutAdmin: clearAuthState() on both paths
FlagsAfterLogout(result) == FlagsCleared

\* the Logout button: the channel teardown is started, signOut is awaited
LogoutBegin ==
  /\ Alive /\ ~loading /\ logout = "idle"
  /\ logout' = "signout"
  /\ chans' = Removing(chans, refs.channel)
  /\ UNCHANGED <<relayVars, storeVars, clientVars, hookInbox, relayQueue,
                 hookVars, page, reservations, loading, error, authFlags,
                 refs, authPc, fetches, resubTimers, tally>>

\* handleLogout after the await: flags cleared, navigate('/admin')
LogoutReturn(outcome) ==
  /\ logout = "signout"
  /\ logout' = "done"
  /\ authFlags' = FlagsAfterLogout(logoutAdmin(outcome, authFlags))
  /\ page' = Navigated
  /\ UNCHANGED <<relayVars, storeVars, clientVars, feedVars, hookVars,
                 reservations, loading, error, refs, authPc, fetches,
                 resubTimers, tally>>

\* handleNewReservation's state update: prepend unless the id is present
Prepended(list, newReservation) ==
  IF \E i \in 1..Len(list) : list[i].id = newReservation.id
  THEN list ELSE <<newReservation>> \o list

\* faulty variant: an update event overwrites every entry, or is inserted
\* when its id is not listed
UpsertAll(list, updated) ==
  IF \E i \in 1..Len(list) : list[i].id = updated.id
  THEN [i \in 1..Len(list) |-> updated]
  ELSE <<updated>> \o list

\* handleReservationUpdate's state update: replace the entry with that id
Replaced(list, updated) ==
  [i \in 1..Len(list) |-> IF list[i].id = updated.id THEN updated ELSE list[i]]

\* a change event reaches the page's postgres_changes callbacks
Deliver(ch) ==
  /\ ch \in DOMAIN chans
  /\ chans[ch].state \in {"joined", "leaving"}
  /\ chans[ch].inbox # <<>>
  /\ LET ev == Head(chans[ch].inbox)
         r == transformReservationRecord(ev.new) IN
     /\ reservations' =
          IF ~Alive THEN reservations
          ELSE IF ev.type = "INSERT" THEN Prepended(reservations, r)
          ELSE Replaced(reservations, r)
     /\ authFlags' = IF ev.type = "INSERT" THEN FlagsSet ELSE authFlags
  /\ chans' = [chans EXCEPT ![ch].inbox = Tail(@),
                            ![ch].handled =
                              IF Alive THEN Handled(Head(chans[ch].inbox),
                                                    reservations)
                              ELSE @]
  /\ UNCHANGED <<relayVars, logout, storeVars, clientVars, hookInbox,
                 relayQueue, hookVars, page, loading, error, refs, authPc,
                 fetches, resubTimers, tally>>

\* what a callback may be handed as payload.new besides a full row: nothing,
\* a value that is not an object, an object without the reservation's columns
OddPayloads ==
  { [kind |-> "absent"],
    [kind |-> "scalar"],
    [kind |-> "object", new |-> [name |-> "Eve"]] }

\* a property read of a column the object does not have gives undefined
Undefined == "undefined"
UndefinedId == 0
AsRead(new) ==
  [k \in Columns \cup {"id"} |->
     IF k \in DOMAIN new THEN new[k]
     ELSE IF k = "id" THEN UndefinedId ELSE Undefined]

\* payload.new && typeof payload.new === 'object' in the callbacks, and
\* !record || typeof record !== 'object' in transformReservationRecord
PayloadIsObject(payload) == payload.kind = "object"

\* the INSERT or UPDATE callback of a subscribed channel is run with a
\* payload that is not a full row
DeliverPayload(ch, type, payload) ==
  /\ ch \in DOMAIN chans
  /\ chans[ch].state \in {"joined", "leaving"}
  /\ Alive
  /\ IF PayloadIsObject(payload)
     THEN LET r == transformReservationRecord(AsRead(payload.new)) IN
          /\ reservations' = IF type = "INSERT" THEN Prepended(reservations, r)
                              ELSE Replaced(reservations, r)
          /\ authFlags' = IF type = "INSERT" THEN FlagsSet ELSE authFlags
     ELSE UNCHANGED <<reservations, authFlags>>
  /\ chans' = [chans EXCEPT ![ch].handled =
       [type |-> type, id |-> UndefinedId,
        hit |-> \E i \in 1..Len(reservations) :
                  reservations[i].id = UndefinedId,
        payload |-> payload.kind]]
  /\ UNCHANGED <<relayVars, logout, storeVars, clientVars, hookInbox,
                 relayQueue, hookVars, page, loading, error, refs, authPc,
                 fetches, resubTimers, tally>>

\* --------------------------------------------------- useDashboard hook
\* name.toLowerCase().includes(query.toLowerCase()) || phone.includes(query)
\* for the queries typed here: a whole name, which no other name and no
\* phone number contains
SearchQueries == {"", "Alice", "Bob"}
QueryMatches(reservation, query) == reservation.name = query

\* applyFilters: the list the table shows for the search query
applyFilters(reservationList, query) ==
  IF query = "" THEN reservationList
  ELSE SelectSeq(reservationList, LAMBDA r : QueryMatches(r, query))

\* prev.filter(reservation => reservation.id !== id)
WithoutId(prev, id) == SelectSeq(prev, LAMBDA r : r.id # id)

HookFetchStarted(h, rcs) ==
  [h EXCEPT !.isLoading = TRUE, !.error = NULL, !.started = @ + Len(rcs)]

HookMount ==
  /\ hook.state = "mounting"
  /\ hook' = HookFetchStarted([hook EXCEPT !.state = "mounted"], <<0>>)
  /\ hookFetches' = Append(hookFetches, [rc |-> 0, pc |-> "select"])
  /\ UNCHANGED <<relayVars, logout, storeVars, clientVars, feedVars, pageVars,
                 hookTimers>>

\* the 120 s interval of the initial-load effect
HookInterval ==
  /\ hook.state = "mounted"
  /\ hook.started < hook.budget
  /\ hook' = HookFetchStarted(hook, <<hook.retryCount>>)
  /\ hookFetches' = Append(hookFetches, [rc |-> hook.retryCount, pc |-> "select"])
  /\ UNCHANGED <<relayVars, logout, storeVars, clientVars, feedVars, pageVars,
                 hookTimers>>

HookFetchSelect(i, outcome) ==
  /\ i \in DOMAIN hookFetches /\ hookFetches[i].pc = "select"
  /\ hookFetches' = [hookFetches EXCEPT ![i] =
       [rc |-> @.rc, pc |-> "result",
        result |-> IF outcome = "ok"
                   THEN [success |-> TRUE, data |-> FetchedRows(store)]
                   ELSE Fail("Failed to fetch reservations")]]
  /\ UNCHANGED <<relayVars, logout, storeVars, clientVars, feedVars, pageVars,
                 hook, hookTimers>>

\* fetchReservations after the select resolves. rc is the retryCount the
\* running closure captured; a retryCount change re-runs the initial-load
\* effect, which fetches again with the new closure.
HookFetchComplete(i) ==
  /\ i \in DOMAIN hookFetches /\ hookFetches[i].pc = "result"
  /\ LET f == hookFetches[i]
         rest == RemoveAt(hookFetches, i) IN
     IF f.result.success
     THEN LET reset == f.rc > 0 /\ hook.retryCount # 0
              h == [hook EXCEPT !.reservations = f.result.data,
                                !.filteredReservations =
                                  applyFilters(f.result.data, hook.searchQuery),
                                !.isLoading = FALSE,
                                !.retryCount = IF f.rc > 0 THEN 0 ELSE @]
          IN /\ hook' = IF reset THEN HookFetchStarted(h, <<0>>) ELSE h
             /\ hookFetches' =
                  IF reset THEN Append(rest, [rc |-> 0, pc |-> "select"])
                  ELSE rest
             /\ UNCHANGED hookTimers
     ELSE /\ hook' = [hook EXCEPT !.error = f.result.message,
                                  !.isLoading = FALSE]
          /\ hookFetches' = rest
          /\ hookTimers' = IF f.rc < 3 THEN Append(hookTimers, f.rc)
                           ELSE hookTimers
  /\ UNCHANGED <<relayVars, logout, storeVars, clientVars, feedVars, pageVars>>

\* the retry timeout: setRetryCount(prev + 1), then fetchReservations() of
\* the closure that set the timer
HookRetryTimer(t) ==
  /\ t \in DOMAIN hookTimers
  /\ hook.started + 2 <= hook.budget
  /\ hookTimers' = RemoveAt(hookTimers, t)
  /\ hook' = HookFetchStarted([hook EXCEPT !.retryCount = @ + 1],
                              <<hookTimers[t], hook.retryCount + 1>>)
  /\ hookFetches' = hookFetches \o
       <<[rc |-> hookTimers[t], pc |-> "select"],
         [rc |-> hook.retryCount + 1, pc |-> "select"]>>
  /\ UNCHANGED <<relayVars, logout, storeVars, clientVars, feedVars, pageVars>>

\* onInsert: setReservations(prev => [newReservation, ...prev])
onInsert(prev, newReservation) == <<newReservation>> \o prev

\* onUpdate: setReservations(prev => prev.map(...))
onUpdate(prev, updatedReservation) == Replaced(prev, updatedReservation)

\* onDelete: setReservations(prev => prev.filter(...))
onDelete(prev, id) == WithoutId(prev, id)

\* handleSetSearchQuery: setSearchQuery, then applyFilters on the list
setSearchQuery(query) ==
  /\ hook.state = "mounted" /\ query # hook.searchQuery
  /\ hook' = [hook EXCEPT
       !.searchQuery = query,
       !.filteredReservations = applyFilters(hook.reservations, query)]
  /\ UNCHANGED <<relayVars, logout, storeVars, clientVars, feedVars, pageVars,
                 hookFetches, hookTimers>>

\* deleteReservation up to its await: the delete request is issued
deleteReservation(id) ==
  /\ hook.state = "mounted" /\ hook.del.pc \in {"idle", "done"}
  /\ \E i \in 1..Len(hook.reservations) : hook.reservations[i].id = id
  /\ ops < MaxOps
  /\ ops' = ops + 1
  /\ hook' = [hook EXCEPT !.del = [pc |-> "delete", id |-> id]]
  /\ UNCHANGED <<relayVars, logout, storeVars, created, call, legacy, feedVars,
                 pageVars, hookFetches, hookTimers>>

\* DELETE FROM reservations WHERE id = id, with the table's DELETE event
\* for the hook's subscription (the page and the relay take no DELETE)
DeleteExecute(outcome) ==
  /\ hook.del.pc = "delete"
  /\ hook' = [hook EXCEPT !.del =
       [pc |-> "reply", id |-> @.id, outcome |-> outcome]]
  /\ IF outcome = "ok" /\ hook.del.id \in DOMAIN store
     THEN /\ store' = Without(store, hook.del.id)
          /\ hookInbox' = Append(hookInbox,
               [type |-> "DELETE", old |-> [id |-> hook.del.id]])
     ELSE UNCHANGED <<store, hookInbox>>
  /\ UNCHANGED <<relayVars, logout, nextId, clientVars, chans, relayQueue,
                 pageVars, hookFetches, hookTimers>>

\* faulty variant: the entry is dropped whatever the backend answered
DeleteAnyway(outcome) == TRUE

\* the backend delete reported no error and did not throw
DeleteOk(outcome) == outcome = "ok"

\* deleteReservation after its await
DeleteContinue ==
  /\ hook.del.pc = "reply"
  /\ hook' =
       IF DeleteOk(hook.del.outcome)
       THEN [hook EXCEPT
              !.reservations = WithoutId(@, hook.del.id),
              !.filteredReservations = WithoutId(@, hook.del.id),
              !.del = [pc |-> "done", id |-> @.id, outcome |-> @.outcome,
                       returned |-> TRUE]]
       ELSE [hook EXCEPT
              !.del = [pc |-> "done", id |-> @.id, outcome |-> @.outcome,
                       returned |-> FALSE]]
  /\ UNCHANGED <<relayVars, logout, storeVars, clientVars, feedVars, pageVars,
                 hookFetches, hookTimers>>

\* a change event reaches the hook's subscription callbacks
HookDeliver ==
  /\ hook.state = "mounted" /\ hookInbox # <<>>
  /\ LET ev == Head(hookInbox)
         r == transformReservationRecord(ev.new)
         updatedReservations ==
           IF ev.type = "DELETE" THEN onDelete(hook.reservations, ev.old.id)
           ELSE IF ev.type = "INSERT" THEN onInsert(hook.reservations, r)
           ELSE onUpdate(hook.reservations, r) IN
     /\ hook' = [hook EXCEPT
          !.reservations = updatedReservations,
          !.filteredReservations =
            applyFilters(updatedReservations, hook.searchQuery),
          !.handled = IF ev.type = "DELETE"
                      THEN [type |-> "DELETE", id |-> ev.old.id,
                            hit |-> \E i \in 1..Len(hook.reservations) :
                                      hook.reservations[i].id = ev.old.id]
                      ELSE Handled(ev, hook.reservations)]
  /\ hookInbox' = Tail(hookInbox)
  /\ UNCHANGED <<relayVars, logout, storeVars, clientVars, chans, relayQueue,
                 pageVars, hookFetches, hookTimers>>

\* ------------------------------------------------------------ webhook relay
\* Two relays are in the repository: the marker-aware one and the one that
\* forwards every event; `deployed` says which one the database webhook calls.
NoResponse == [status |-> 0, success |-> FALSE]
Ok200 == [status |-> 200, success |-> TRUE]
Err500 == [status |-> 500, success |-> FALSE]

\* type === 'UPDATE' && body.old, then record.manual_update === true
ClearsMarker(body) ==
  /\ deployed = "marker"
  /\ body.type = "UPDATE" /\ body.hasOld
  /\ body.record.manual_update = MarkerSet

\* the database webhook calls the relay with the next queued body
RelayInvoke ==
  /\ deployed # "off" /\ relayQueue # <<>>
  /\ Len(relays) < MaxRelays
  /\ relays' = Append(relays,
       [pc |-> IF ClearsMarker(Head(relayQueue)) THEN "clear" ELSE "post",
        body |-> Head(relayQueue), posted |-> 0, cleared |-> FALSE,
        webhookResponse |-> NULL, response |-> NoResponse])
  /\ relayQueue' = Tail(relayQueue)
  /\ UNCHANGED <<storeVars, clientVars, chans, hookInbox, pageVars, hookVars,
                 deployed, posts, logout>>

\* faulty variant: a failed clearing write is ignored
ClearFailureIgnored(r) == [r EXCEPT !.pc = "post"]

\* if (error) throw error, caught by the handler's catch
ClearFailed(r) == [r EXCEPT !.pc = "done", !.response = Err500]

\* faulty variant: the clearing write leaves the marker set
MarkerKept(record) == [manual_update |-> MarkerSet]

\* the columns of the clearing write: { manual_update: null }
MarkerCleared(record) == [manual_update |-> NULL]

\* update({ manual_update: null }).eq('id', record.id)
RelayClear(i, outcome) ==
  /\ i \in DOMAIN relays /\ relays[i].pc = "clear"
  /\ IF outcome = "ok"
     THEN /\ store' = StoreUpdate(store, relays[i].body.record.id,
                                  MarkerCleared(relays[i].body.record))
          /\ Published(UpdateEvents(store', relays[i].body.record.id))
          /\ relays' = [relays EXCEPT ![i].pc = "post", ![i].cleared = TRUE]
     ELSE /\ UNCHANGED <<store, feedVars>>
          /\ relays' = [relays EXCEPT ![i] = ClearFailed(@)]
  /\ UNCHANGED <<nextId, clientVars, pageVars, hookVars, deployed, posts,
                 logout>>

\* faulty variant: a refused POST is answered as a success
AlwaysOk(outcome) == Ok200

\* 200 when webhookResponse.ok, otherwise the catch's 500
PostResponse(outcome) == IF outcome = "ok" THEN Ok200 ELSE Err500

\* fetch(webhookUrl, { method: 'POST', body: bookingData })
RelayPost(i, outcome) ==
  /\ i \in DOMAIN relays /\ relays[i].pc = "post"
  /\ posts' = [posts EXCEPT ![relays[i].body.type] = @ + 1]
  /\ relays' = [relays EXCEPT ![i].pc = "done", ![i].posted = @ + 1,
                              ![i].webhookResponse = outcome,
                              ![i].response = PostResponse(outcome)]
  /\ UNCHANGED <<storeVars, clientVars, feedVars, pageVars, hookVars,
                 deployed, logout>>

\* the response is returned and the invocation ends
RelayReturn(i) ==
  /\ i \in DOMAIN relays /\ relays[i].pc = "done"
  /\ relays' = RemoveAt(relays, i)
  /\ UNCHANGED <<storeVars, clientVars, feedVars, pageVars, hookVars,
                 deployed, posts, logout>>

\* ------------------------------------------------------------ specification
Outcomes == {"ok", "error", "throw"}
SessionOutcomes == {"session", "none", "error", "throw"}

Init ==
  /\ store = <<>>
  /\ nextId = 1
  /\ created = [payload |-> <<>>, success |-> FALSE, id |-> 0]
  /\ call = [c \in Callers |-> Idle]
  /\ legacy = Idle
  /\ ops = 0
  /\ chans = <<>>
  /\ hookInbox = <<>>
  /\ page = "absent"
  /\ reservations = <<>>
  /\ loading = TRUE
  /\ error = NULL
  /\ authFlags = FlagsCleared
  /\ refs = [authChecked |-> FALSE, dataFetchAttempted |-> FALSE,
             channel |-> NoChannel]
  /\ authPc = "idle"
  /\ fetches = <<>>
  /\ resubTimers = 0
  /\ tally = [chanErrors |-> 0, timerFires |-> 0, setups |-> 0,
              sessionCalls |-> 0, sessionResult |-> NULL, passes |-> 0]
  /\ hook = [state |-> "absent", reservations |-> <<>>, isLoading |-> TRUE,
             error |-> NULL, retryCount |-> 0, started |-> 0,
             handled |-> NoEvent,
             filteredReservations |-> <<>>, searchQuery |-> "",
             del |-> Idle, budget |-> MaxHookFetches]
  /\ hookFetches = <<>>
  /\ hookTimers = <<>>
  /\ deployed = "off"
  /\ relayQueue = <<>>
  /\ relays = <<>>
  /\ posts = [INSERT |-> 0, UPDATE |-> 0]
  /\ logout = "idle"

\* Inputs of the concurrency specification: status edits, one edit without a
\* status, and legacy requests that reach the database.
StatusUpdates == {u \in UpdateInputs : HasStatus(u)} \cup {[name |-> "Bob"]}
StatusBodies ==
  {d \in LegacyBodies : "status" \in DOMAIN d /\ "phone" \notin DOMAIN d}

CreateStep ==
  \E p \in CreatePayloads, o \in {"ok", "error"} : createReservation(p, o)

UpdateSteps ==
  \/ \E c \in Callers, o \in Outcomes : UpdateWrite(c, o)
  \/ \E c \in Callers, o \in Outcomes : UpdateVerify(c, o)
  \/ \E c \in Callers, o \in Outcomes : UpdateRetry(c, o)
  \/ \E c \in Callers : UpdateReturn(c)

LegacySteps ==
  \/ \E o \in {"ok", "error"}, f \in BOOLEAN : LegacyUpdate(o, f)
  \/ \E o \in {"ok", "error"} : LegacyVerify(o)
  \/ \E o \in {"ok", "error"} : LegacyRetry(o)
  \/ LegacyReturn

\* Concurrent writers: store-client calls and the legacy endpoint on one table.
Next ==
  \/ CreateStep
  \/ \E c \in Callers, id \in Ids, u \in StatusUpdates :
       UpdateBegin(c, id, u, "session")
  \/ UpdateSteps
  \/ \E d \in StatusBodies : LegacyRequest("POST", TRUE, d)
  \/ LegacySteps

Spec == Init /\ [][Next]_vars

\* Every input of the two update paths, one store-client caller.
NextInputs ==
  \/ CreateStep
  \/ \E id \in Ids, u \in UpdateInputs, s \in SessionOutcomes :
       UpdateBegin(1, id, u, s)
  \/ UpdateSteps
  \/ \E m \in {"POST", "PUT", "GET", "OPTIONS"}, a \in BOOLEAN, d \in LegacyBodies :
       LegacyRequest(m, a, d)
  \/ LegacySteps

SpecInputs == Init /\ [][NextInputs]_vars

\* The dashboard: either the Dashboard page or the useDashboard hook is
\* opened, beside the booking form, one admin editing and the legacy endpoint.
InitDash ==
  /\ store = <<>>
  /\ nextId = 1
  /\ created = [payload |-> <<>>, success |-> FALSE, id |-> 0]
  /\ call = [c \in Callers |-> Idle]
  /\ legacy = Idle
  /\ ops = 0
  /\ chans = <<>>
  /\ hookInbox = <<>>
  /\ reservations = <<>>
  /\ loading = TRUE
  /\ error = NULL
  /\ refs = [authChecked |-> FALSE, dataFetchAttempted |-> FALSE,
             channel |-> NoChannel]
  /\ authPc = "idle"
  /\ fetches = <<>>
  /\ resubTimers = 0
  /\ tally = [chanErrors |-> 0, timerFires |-> 0, setups |-> 0,
              sessionCalls |-> 0, sessionResult |-> NULL, passes |-> 0]
  /\ hookFetches = <<>>
  /\ hookTimers = <<>>
  /\ deployed = "off"
  /\ relayQueue = <<>>
  /\ relays = <<>>
  /\ posts = [INSERT |-> 0, UPDATE |-> 0]
  /\ logout = "idle"
  /\ \E h \in {"absent", "mounting"} :
       /\ hook = [state |-> h, reservations |-> <<>>, isLoading |-> TRUE,
                  error |-> NULL, retryCount |-> 0, started |-> 0,
                  handled |-> NoEvent,
                  filteredReservations |-> <<>>, searchQuery |-> "",
                  del |-> Idle, budget |-> MaxHookFetches]
       /\ page = IF h = "absent" THEN "mounting" ELSE "absent"
  /\ authFlags \in {FlagsSet, FlagsCleared}

\* a status edit made in the page's reservation table
DashEdit(id, status) ==
  /\ page = "mounted" /\ ~loading /\ error = NULL
  /\ \E i \in 1..Len(reservations) : reservations[i].id = id
  /\ UpdateBegin(DashCaller, id, [status |-> status], "session")

\* handleStatusChange / handleUpdate called from a row of the table; the
\* backend session is there or has gone
HandleEdit(id, updatedData, sess) ==
  /\ page = "mounted" /\ ~loading /\ error = NULL
  /\ \E i \in 1..Len(reservations) : reservations[i].id = id
  /\ UpdateBegin(DashCaller, id, updatedData, sess)

DashPayloads == {p \in CreatePayloads : "status" \notin DOMAIN p}
DashBodies == {d \in StatusBodies : Provided(d, "id") /\ d.id = "1"
                                     /\ Provided(d, "status")}

\* the page's lifecycle, its fetches and its channel
PageSteps ==
  \/ Mount
  \/ AuthTick
  \/ \E o \in {"session", "none"} : CheckAuthSession(o)
  \/ \E i \in DOMAIN fetches, o \in {"session", "none"} : FetchSession(i, o)
  \/ \E i \in DOMAIN fetches, o \in {"ok", "error"} : FetchSelect(i, o)
  \/ \E i \in DOMAIN fetches : FetchComplete(i)
  \/ PostLoadCheck
  \/ UserRefresh
  \/ WatchdogFire
  \/ \E ch \in DOMAIN chans : ChannelSubscribed(ch)
  \/ \E ch \in DOMAIN chans, o \in {"ok", "error"} : RemoveDone(ch, o)
  \/ Unmount
  \/ \E ch \in DOMAIN chans : Deliver(ch)

\* channel failures and the resubscribe timer
ChannelSteps ==
  \/ \E ch \in DOMAIN chans : ChannelError(ch)
  \/ ResubscribeTimer

HookSteps ==
  \/ HookMount
  \/ HookInterval
  \/ \E i \in DOMAIN hookFetches, o \in {"ok", "error"} :
       HookFetchSelect(i, o)
  \/ \E i \in DOMAIN hookFetches : HookFetchComplete(i)
  \/ \E t \in DOMAIN hookTimers : HookRetryTimer(t)
  \/ HookDeliver

NextDash ==
  \/ \E p \in DashPayloads : createReservation(p, "ok")
  \/ \E id \in Ids, st \in {"Confirmed", "Canceled"} : DashEdit(id, st)
  \/ \E c \in {DashCaller}, o \in {"ok", "error"} : UpdateWrite(c, o)
  \/ \E c \in {DashCaller} : UpdateVerify(c, "ok")
  \/ \E c \in {DashCaller} : UpdateRetry(c, "ok")
  \/ \E c \in {DashCaller} : UpdateReturn(c)
  \/ \E d \in DashBodies : LegacyRequest("POST", TRUE, d)
  \/ LegacyUpdate("ok", TRUE) \/ LegacyVerify("ok") \/ LegacyRetry("ok")
  \/ LegacyReturn
  \/ PageSteps
  \/ HookSteps

SpecDash == InitDash /\ [][NextDash]_vars

\* The Dashboard page with a failing channel, beside the booking form.
InitPage == InitDash /\ page = "mounting"

NextPage ==
  \/ \E p \in DashPayloads : createReservation(p, "ok")
  \/ PageSteps
  \/ ChannelSteps

SpecPage == InitPage /\ [][NextPage]_vars

\* The Dashboard page of an admin whose local flags are set and who edits
\* rows of the table: any field set handleUpdate can be given, a backend
\* session that is there, gone, in error or unreachable, writes that
\* succeed, are refused or throw, and a second admin cancelling reservations at the same time.
NextEdit ==
  \/ \E p \in DashPayloads : createReservation(p, "ok")
  \/ \E id \in Ids, u \in UpdateInputs, o \in SessionOutcomes :
       HandleEdit(id, u, o)
  \/ \E id \in Ids : UpdateBegin(2, id, [status |-> "Canceled"], "session")
  \/ \E c \in Callers, o \in Outcomes : UpdateWrite(c, o)
  \/ \E c \in Callers : UpdateVerify(c, "ok")
  \/ \E c \in Callers : UpdateRetry(c, "ok")
  \/ \E c \in Callers : UpdateReturn(c)
  \/ Mount
  \/ CheckAuthSession("session")
  \/ \E i \in DOMAIN fetches, o \in SessionOutcomes : FetchSession(i, o)
  \/ \E i \in DOMAIN fetches : FetchSelect(i, "ok")
  \/ \E i \in DOMAIN fetches : FetchComplete(i)
  \/ \E ch \in DOMAIN chans : ChannelSubscribed(ch)
  \/ \E ch \in DOMAIN chans : Deliver(ch)

SpecEdit == InitPage /\ [][NextEdit]_vars

\* The useDashboard hook of an admin who searches and deletes rows, beside
\* the booking form.
InitHook == InitDash /\ hook.state = "mounting"

NextHook ==
  \/ \E p \in DashPayloads : createReservation(p, "ok")
  \/ HookSteps
  \/ \E q \in SearchQueries : setSearchQuery(q)
  \/ \E id \in Ids : deleteReservation(id)
  \/ \E o \in Outcomes : DeleteExecute(o)
  \/ DeleteContinue

SpecHook == InitHook /\ [][NextHook]_vars

\* The Dashboard page of a signed-in admin whose channel also hands the
\* callbacks payloads that are not full rows.
NextPayload ==
  \/ \E p \in DashPayloads : createReservation(p, "ok")
  \/ Mount
  \/ CheckAuthSession("session")
  \/ \E i \in DOMAIN fetches : FetchSession(i, "session")
  \/ \E i \in DOMAIN fetches : FetchSelect(i, "ok")
  \/ \E i \in DOMAIN fetches : FetchComplete(i)
  \/ \E ch \in DOMAIN chans : ChannelSubscribed(ch)
  \/ \E ch \in DOMAIN chans : Deliver(ch)
  \/ \E ch \in DOMAIN chans, t \in {"INSERT", "UPDATE"}, p \in OddPayloads :
       DeliverPayload(ch, t, p)

SpecPayload == InitPage /\ [][NextPayload]_vars

\* The Dashboard page left alone: the admin presses nothing, no timer fires,
\* the backend answers every request; only the booking form may add rows.
NextQuiet ==
  \/ \E p \in DashPayloads : createReservation(p, "ok")
  \/ Mount
  \/ CheckAuthSession("session")
  \/ \E i \in DOMAIN fetches : FetchSession(i, "session")
  \/ \E i \in DOMAIN fetches : FetchSelect(i, "ok")
  \/ \E i \in DOMAIN fetches : FetchComplete(i)
  \/ PostLoadCheck
  \/ \E ch \in DOMAIN chans : ChannelSubscribed(ch)
  \/ \E ch \in DOMAIN chans : Deliver(ch)

SpecQuiet == InitPage /\ [][NextQuiet]_vars

\* The useDashboard hook while the backend refuses every select: the hook
\* alone, followed for MaxRetryFetches fetches.
InitRetry ==
  /\ store = <<>>
  /\ nextId = 1
  /\ created = [payload |-> <<>>, success |-> FALSE, id |-> 0]
  /\ call = [c \in Callers |-> Idle]
  /\ legacy = Idle
  /\ ops = 0
  /\ chans = <<>>
  /\ hookInbox = <<>>
  /\ reservations = <<>>
  /\ loading = TRUE
  /\ error = NULL
  /\ refs = [authChecked |-> FALSE, dataFetchAttempted |-> FALSE,
             channel |-> NoChannel]
  /\ authPc = "idle"
  /\ fetches = <<>>
  /\ resubTimers = 0
  /\ tally = [chanErrors |-> 0, timerFires |-> 0, setups |-> 0,
              sessionCalls |-> 0, sessionResult |-> NULL, passes |-> 0]
  /\ hookFetches = <<>>
  /\ hookTimers = <<>>
  /\ deployed = "off"
  /\ relayQueue = <<>>
  /\ relays = <<>>
  /\ posts = [INSERT |-> 0, UPDATE |-> 0]
  /\ logout = "idle"
  /\ hook = [state |-> "mounting", reservations |-> <<>>, isLoading |-> TRUE,
             error |-> NULL, retryCount |-> 0, started |-> 0,
             handled |-> NoEvent,
             filteredReservations |-> <<>>, searchQuery |-> "",
             del |-> Idle, budget |-> MaxRetryFetches]
  /\ page = "absent"
  /\ authFlags \in {FlagsSet, FlagsCleared}

NextRetry ==
  \/ HookMount
  \/ \E i \in DOMAIN hookFetches : HookFetchSelect(i, "error")
  \/ \E i \in DOMAIN hookFetches : HookFetchComplete(i)
  \/ \E t \in DOMAIN hookTimers : HookRetryTimer(t)

SpecRetry == InitRetry /\ [][NextRetry]_vars

\* The loading timeout is a timer: once armed it fires unless it is cleared.
SpecPageFair == SpecPage /\ WF_vars(WatchdogFire)

\* The page with every step its runtime owes it: pending callbacks, timers
\* and network replies are eventually run or received.
SpecPageLive ==
  /\ SpecPage
  /\ WF_vars(Mount)
  /\ WF_vars(\E o \in {"session", "none"} : CheckAuthSession(o))
  /\ WF_vars(\E i \in DOMAIN fetches, o \in {"session", "none"} :
               FetchSession(i, o))
  /\ WF_vars(\E i \in DOMAIN fetches, o \in {"ok", "error"} :
               FetchSelect(i, o))
  /\ WF_vars(\E i \in DOMAIN fetches : FetchComplete(i))
  /\ WF_vars(PostLoadCheck)
  /\ WF_vars(WatchdogFire)
  /\ WF_vars(\E ch \in DOMAIN chans : ChannelSubscribed(ch))
  /\ WF_vars(\E ch \in DOMAIN chans : Deliver(ch))
  /\ WF_vars(ResubscribeTimer)
  /\ WF_vars(Unmount)

\* The page's sign-in checks and logout, with every result of the session
\* call, of the list fetch and of signOut, beside the booking form.
AuthSteps ==
  \/ Mount
  \/ AuthTick
  \/ \E o \in SessionOutcomes : CheckAuthSession(o)
  \/ \E i \in DOMAIN fetches, o \in SessionOutcomes : FetchSession(i, o)
  \/ \E i \in DOMAIN fetches, o \in Outcomes : FetchSelect(i, o)
  \/ \E i \in DOMAIN fetches : FetchComplete(i)
  \/ PostLoadCheck
  \/ UserRefresh
  \/ WatchdogFire
  \/ \E ch \in DOMAIN chans : ChannelSubscribed(ch)
  \/ \E ch \in DOMAIN chans, o \in {"ok", "error"} : RemoveDone(ch, o)
  \/ Unmount
  \/ \E ch \in DOMAIN chans : Deliver(ch)
  \/ LogoutBegin
  \/ \E o \in Outcomes : LogoutReturn(o)

NextAuth ==
  \/ \E p \in DashPayloads : createReservation(p, "ok")
  \/ AuthSteps

SpecAuth == InitPage /\ [][NextAuth]_vars

\* The database webhook is configured: two admins editing statuses, the
\* booking form, and the relay with one of its two variants deployed.
InitRelay ==
  /\ store = <<>>
  /\ nextId = 1
  /\ created = [payload |-> <<>>, success |-> FALSE, id |-> 0]
  /\ call = [c \in Callers |-> Idle]
  /\ legacy = Idle
  /\ ops = 0
  /\ chans = <<>>
  /\ hookInbox = <<>>
  /\ page = "absent"
  /\ reservations = <<>>
  /\ loading = TRUE
  /\ error = NULL
  /\ authFlags = FlagsCleared
  /\ refs = [authChecked |-> FALSE, dataFetchAttempted |-> FALSE,
             channel |-> NoChannel]
  /\ authPc = "idle"
  /\ fetches = <<>>
  /\ resubTimers = 0
  /\ tally = [chanErrors |-> 0, timerFires |-> 0, setups |-> 0,
              sessionCalls |-> 0, sessionResult |-> NULL, passes |-> 0]
  /\ hook = [state |-> "absent", reservations |-> <<>>, isLoading |-> TRUE,
             error |-> NULL, retryCount |-> 0, started |-> 0,
             handled |-> NoEvent,
             filteredReservations |-> <<>>, searchQuery |-> "",
             del |-> Idle, budget |-> MaxHookFetches]
  /\ hookFetches = <<>>
  /\ hookTimers = <<>>
  /\ deployed \in {"marker", "unconditional"}
  /\ relayQueue = <<>>
  /\ relays = <<>>
  /\ posts = [INSERT |-> 0, UPDATE |-> 0]
  /\ logout = "idle"

RelaySteps ==
  \/ RelayInvoke
  \/ \E i \in DOMAIN relays, o \in Outcomes : RelayClear(i, o)
  \/ \E i \in DOMAIN relays, o \in Outcomes : RelayPost(i, o)
  \/ \E i \in DOMAIN relays : RelayReturn(i)

NextRelay ==
  \/ \E p \in DashPayloads : createReservation(p, "ok")
  \/ \E c \in Callers, id \in Ids, st \in {"Confirmed", "Canceled"} :
       UpdateBegin(c, id, [status |-> st], "session")
  \/ \E c \in Callers : UpdateWrite(c, "ok")
  \/ \E c \in Callers : UpdateVerify(c, "ok")
  \/ \E c \in Callers : UpdateRetry(c, "ok")
  \/ \E c \in Callers : UpdateReturn(c)
  \/ RelaySteps

SpecRelay == InitRelay /\ [][NextRelay]_vars

\* The marker-aware relay behind one admin's status edits of stored rows,
\* every backend call succeeding. Nobody else writes a status, so the edit's
\* verification read never differs and its retry is never taken. Queued webhook requests
\* are delivered and started calls and invocations run to their end.
NextChain ==
  \/ \E p \in DashPayloads : createReservation(p, "ok")
  \/ \E id \in DOMAIN store, st \in {"Confirmed", "Canceled"} :
       UpdateBegin(DashCaller, id, [status |-> st], "session")
  \/ UpdateWrite(DashCaller, "ok")
  \/ UpdateVerify(DashCaller, "ok")
  \/ UpdateReturn(DashCaller)
  \/ RelayInvoke
  \/ \E i \in DOMAIN relays : RelayClear(i, "ok")
  \/ \E i \in DOMAIN relays : RelayPost(i, "ok")
  \/ \E i \in DOMAIN relays : RelayReturn(i)

InitChain == InitRelay /\ deployed = "marker"

SpecChain ==
  /\ InitChain
  /\ [][NextChain]_vars
  /\ WF_vars(UpdateWrite(DashCaller, "ok"))
  /\ WF_vars(UpdateVerify(DashCaller, "ok"))
  /\ WF_vars(UpdateReturn(DashCaller))
  /\ WF_vars(RelayInvoke)
  /\ WF_vars(\E i \in DOMAIN relays : RelayClear(i, "ok"))
  /\ WF_vars(\E i \in DOMAIN relays : RelayPost(i, "ok"))
  /\ WF_vars(\E i \in DOMAIN relays : RelayReturn(i))

\* -------------------------------------------------------------- properties

\* C1: whatever the creation payload holds, the row createReservation writes
\* has status Pending: every row that appears in the table appears with
\* status Pending.
C1_CreatedPending ==
  [][\A id \in DOMAIN store' \ DOMAIN store :
       store'[id].status = "Pending"]_vars

\* a row created from a payload that carried its own status
C1_Witness ==
  /\ created.success
  /\ "status" \in DOMAIN created.payload
  /\ created.payload.status = "Confirmed"
  /\ created.id \in DOMAIN store

\* C2: a store write that changes a row's status leaves the manual-update
\* marker set in the same step, for the store client and the legacy endpoint
\* alike: no state has the new status without the marker.
C2_MarkerWithStatus ==
  [][\A id \in DOMAIN store :
       (id \in DOMAIN store' /\ store'[id].status # store[id].status)
         => store'[id].manual_update = "true"]_vars

\* a status edit whose first write has just been applied
C2_Witness ==
  \E c \in Callers :
    /\ call[c].pc = "verify"
    /\ "status" \in DOMAIN call[c].updates
    /\ call[c].id \in DOMAIN store
    /\ store[call[c].id].status = call[c].updates.status
    /\ store[call[c].id].status # "Pending"
    /\ store[call[c].id].manual_update = "true"

\* C5: an update that includes a status issues at most two writes and one
\* verification read; no second write when the read returned the requested
\* status, exactly one retry write when it returned another status.
C5_Call(rec, requested) ==
  /\ rec.nwrites <= 2
  /\ rec.nreads <= 1
  /\ rec.pc = "retry" => rec.nwrites = 1 /\ rec.seen # requested
  /\ (rec.pc = "done" /\ rec.nreads = 1 /\ rec.seen = requested)
       => rec.nwrites = 1
  /\ (rec.pc = "done" /\ rec.seen # NULL /\ rec.seen # requested)
       => rec.nwrites = 2

C5_AtMostOneRetry ==
  /\ \A c \in Callers :
       (call[c].pc # "idle" /\ "status" \in DOMAIN call[c].updates)
         => C5_Call(call[c], call[c].updates.status)
  /\ (legacy.pc # "idle" /\ "status" \in DOMAIN legacy.data)
       => C5_Call(legacy, legacy.data.status)

\* a store-client call that saw a stale status and issued its retry, and a
\* call that saw the requested status and stopped at one write
C5_Witness ==
  \E c \in Callers :
    /\ call[c].pc = "done"
    /\ "status" \in DOMAIN call[c].updates
    /\ call[c].seen \notin {NULL, call[c].updates.status}
    /\ call[c].nwrites = 2
    /\ legacy.pc = "done" /\ "status" \in DOMAIN legacy.data
    /\ legacy.seen = legacy.data.status /\ legacy.nwrites = 1

\* what the interface asks of a phone, a date and a status
C6_Digits(s) == \A i \in 1..Len(s) : \E d \in 0..9 : SubSeq(s, i, i) = ToString(d)
C6_PhoneOk(s) == (Len(s) = 9 \/ Len(s) = 10) /\ C6_Digits(s)
C6_DateOk(s) ==
  /\ Len(s) = 10
  /\ \A i \in {3, 6} : SubSeq(s, i, i) = "/"
  /\ \A i \in {1, 2, 4, 5, 7, 8, 9, 10} : C6_Digits(SubSeq(s, i, i))
C6_StatusOk(s) == s \in ValidStatuses
C6_Bad(data, k) ==
  /\ k \in DOMAIN data
  /\ \/ k = "phone" /\ ~C6_PhoneOk(data[k])
     \/ k = "date" /\ ~C6_DateOk(data[k])
     \/ k = "status" /\ ~C6_StatusOk(data[k])
C6_Fields == {"phone", "date", "status"}
C6_Processed ==
  /\ legacy.pc = "done"
  /\ legacy.method \in {"POST", "PUT"} /\ legacy.auth
  /\ "id" \in DOMAIN legacy.data /\ legacy.data.id \in {"1", "2"}

C7_Invalid(updates) ==
  \/ "status" \in DOMAIN updates /\ updates.status \notin ValidStatuses
  \/ "phone" \in DOMAIN updates /\ ~C6_PhoneOk(updates.phone)
  \/ "date" \in DOMAIN updates /\ ~C6_DateOk(updates.date)
  \/ "timeSlot" \in DOMAIN updates
       /\ updates.timeSlot \notin {"8h00-11h00", "11h00-14h00", "14h00-16h00"}

\* C7 as stated: while and after such a call runs, the stored row has not
\* been changed by it, and its result is success=false.
C7_ClientRejectsInvalid ==
  \A c \in Callers :
    (call[c].pc # "idle" /\ C7_Invalid(call[c].updates))
      => /\ ~call[c].changed
         /\ call[c].pc = "done" => ~call[c].result.success

\* a step in which a callback of the page's channel ch handles an event
PageHandles(ch) ==
  /\ Alive
  /\ ch \in DOMAIN chans /\ ch \in DOMAIN chans'
  /\ chans[ch].inbox # <<>>
  /\ chans'[ch].inbox = Tail(chans[ch].inbox)
  /\ chans'[ch].state = chans[ch].state

\* a step in which a callback of the hook's subscription handles an event
HookHandles == hookInbox # <<>> /\ hookInbox' = Tail(hookInbox)

HasId(list, id) == \E i \in 1..Len(list) : list[i].id = id

\* C3: an insert event for an id already in the list leaves the list as it
\* was, in the page's handler and in the hook's handler.
C3_InsertIdempotent ==
  [][/\ \A ch \in DOMAIN chans :
          (PageHandles(ch) /\ Head(chans[ch].inbox).type = "INSERT"
           /\ HasId(reservations, Head(chans[ch].inbox).new.id))
            => reservations' = reservations
     /\ (HookHandles /\ Head(hookInbox).type = "INSERT"
         /\ HasId(hook.reservations, Head(hookInbox).new.id))
          => hook'.reservations = hook.reservations]_vars

\* the list relation C4 asks of an update event carrying record r
C4_Replaced(before, after, r) ==
  /\ ~HasId(before, r.id) => after = before
  /\ Len(after) = Len(before)
  /\ \A i \in 1..Len(before) :
       after[i] = IF before[i].id = r.id THEN r ELSE before[i]

\* C4: an update event whose id is not in the list leaves the list
\* unchanged; one whose id is in the list replaces the entry with that id
\* by the event's record and leaves every other entry as it was.
C4_UpdateEvent ==
  [][/\ \A ch \in DOMAIN chans :
          (PageHandles(ch) /\ Head(chans[ch].inbox).type = "UPDATE")
            => C4_Replaced(reservations, reservations',
                 transformReservationRecord(Head(chans[ch].inbox).new))
     /\ (HookHandles /\ Head(hookInbox).type = "UPDATE")
          => C4_Replaced(hook.reservations, hook'.reservations,
               transformReservationRecord(Head(hookInbox).new))]_vars

\* an update event replaced one entry of a two-entry list in the page, the
\* other entry still Pending
C4_Witness ==
  /\ Len(reservations) = 2
  /\ \E ch \in DOMAIN chans :
       /\ chans[ch].handled.type = "UPDATE" /\ chans[ch].handled.hit
       /\ \E i, j \in 1..2 :
            /\ reservations[i].id = chans[ch].handled.id
            /\ reservations[i].status # "Pending"
            /\ reservations[j].id # chans[ch].handled.id
            /\ reservations[j].status = "Pending"

C9_ResubscribeAfterTimer ==
  [][/\ tally'.chanErrors > tally.chanErrors
          => /\ Len(chans') = Len(chans)
             /\ resubTimers' = resubTimers + 1
             /\ refs' = refs
     /\ Len(chans') > Len(chans)
          => \/ resubTimers' = resubTimers - 1
             \/ Len(fetches') < Len(fetches) /\ tally.setups = 0
     /\ tally'.timerFires + resubTimers' = tally'.chanErrors
     /\ tally'.setups <= 1 + tally'.timerFires]_vars

\* two channel errors, each followed by its resubscribe
C9_Witness ==
  /\ tally.chanErrors = 2 /\ tally.timerFires = 2 /\ resubTimers = 0
  /\ Len(chans) = 3 /\ refs.channel = 3

\* C10: while the page is mounted and loading, the loading timeout ends the
\* loading state; when loading ends with no fetch completing, the timeout
\* message is the error shown.
C10_WatchdogEndsLoading ==
  /\ [][(Alive /\ loading /\ ~loading' /\ fetches' = fetches)
         => error' = TimeoutMessage]_vars
  /\ ((Alive /\ loading) ~> (~loading \/ ~Alive))

\* the timeout ended the loading state with the fetch still in flight
C10_Witness ==
  /\ page = "mounted" /\ ~loading /\ error = TimeoutMessage
  /\ Len(fetches) = 1 /\ fetches[1].pc = "session"

\* live channels nobody has asked to tear down
C11_Subscribed ==
  {ch \in DOMAIN chans : chans[ch].state = "joined" /\ chans[ch].removals = 0}

\* C11: at most one realtime channel opened by the page is subscribed with no
\* teardown requested for it, whatever the order of subscribe calls,
\* resubscribe timers and teardown completions.
C11_OneActiveChannel ==
  Cardinality(C11_Subscribed) <= 1

\* status edits begun so far (every create in the relay specification succeeds)
C12_Edits == ops - (nextId - 1)

\* C12: as long as one status edit has been made, at most one POST for an
\* update event has been issued to the external URL, over all the relay
\* invocations that edit caused.
C12_OnePostPerEdit ==
  C12_Edits <= 1 => posts.UPDATE <= 1

\* an invocation for an update event whose new row carries the marker
C13_Marked(r) ==
  r.body.type = "UPDATE" /\ r.body.record.manual_update = MarkerSet

\* C13: when the relay invocation for an update event whose new row carries
\* the marker has completed with a success response, the stored row's marker
\* is null.
C13_MarkerOneShot ==
  \A i \in DOMAIN relays :
    (relays[i].pc = "done" /\ relays[i].response.success
       /\ C13_Marked(relays[i]))
      => store[relays[i].body.record.id].manual_update = NULL

\* C14: in the marker-aware relay, the step in which the marker-clearing
\* write fails ends the invocation with a 500 {success:false} response,
\* issues no POST and leaves the table as it is; an invocation that ended
\* without its clearing write has the 500 response and no POST.
C14_ClearFailure ==
  /\ [][\A i \in DOMAIN relays :
          (/\ Len(relays') = Len(relays)
           /\ relays[i].pc = "clear" /\ relays'[i] # relays[i]
           /\ ~relays'[i].cleared)
            => /\ relays'[i].pc = "done"
               /\ relays'[i].response = Err500
               /\ relays'[i].posted = 0
               /\ posts' = posts
               /\ store' = store]_vars
  /\ [](\A i \in DOMAIN relays :
          (relays[i].pc = "done" /\ ClearsMarker(relays[i].body)
             /\ ~relays[i].cleared)
            => relays[i].response = Err500 /\ relays[i].posted = 0)

\* a failed clearing write: 500, nothing posted, the marker still set
C14_Witness ==
  \E i \in DOMAIN relays :
    /\ relays[i].pc = "done" /\ ClearsMarker(relays[i].body)
    /\ ~relays[i].cleared /\ relays[i].response = Err500
    /\ store[relays[i].body.record.id].manual_update = MarkerSet
    /\ posts.UPDATE = 0

\* C15: a relay invocation issues at most one POST; the step that issues it
\* ends the invocation; the response after a POST is 200 {success:true} when
\* the POST returned a success status and 500 {success:false} when it
\* returned another status or threw; an ended invocation has one of the two.
C15_OnePostNoRetry ==
  /\ [][\A i \in DOMAIN relays :
          (Len(relays') = Len(relays) /\ relays'[i].posted # relays[i].posted)
            => /\ relays[i].posted = 0 /\ relays'[i].posted = 1
               /\ relays'[i].pc = "done"]_vars
  /\ [](\A i \in DOMAIN relays :
          /\ relays[i].posted <= 1
          /\ relays[i].pc = "done" => relays[i].response \in {Ok200, Err500}
          /\ relays[i].posted = 1 =>
               /\ relays[i].pc = "done"
               /\ relays[i].response = Ok200
                    <=> relays[i].webhookResponse = "ok"
               /\ relays[i].response = Err500
                    <=> relays[i].webhookResponse \in {"error", "throw"})

\* a POST answered with a non-success status: one POST, response 500
C15_Witness ==
  \E i \in DOMAIN relays :
    /\ relays[i].pc = "done" /\ relays[i].posted = 1
    /\ relays[i].webhookResponse = "error" /\ relays[i].response = Err500
    /\ posts[relays[i].body.type] = 1

\* C16: an updateReservation call in which a backend request (session call,
\* write, verification read, retry write) reported an error or threw does
\* not end with a success result.
C16_NoSuccessAfterError ==
  \A c \in Callers :
    (call[c].pc = "done" /\ call[c].backendError) => ~call[c].result.success

C18_NoFlagNoBackendCall ==
  /\ [][tally'.sessionCalls # tally.sessionCalls
          => isAuthenticated /\ authPc' = "session"]_vars
  /\ [][(page = "mounting" /\ page' # page /\ ~isAuthenticated)
          => /\ page' = "leaving"
             /\ authFlags' = FlagsCleared
             /\ authPc' = "idle" /\ tally' = tally
             /\ fetches' = fetches /\ chans' = chans /\ refs' = refs]_vars

\* mounted with no flag: redirected, the backend never asked
C18_Witness ==
  /\ page = "leaving" /\ tally.sessionCalls = 0 /\ authPc = "idle"
  /\ authFlags = FlagsCleared /\ fetches = <<>> /\ chans = <<>>

\* the step in which checkAuth's session call returns
C19_CheckEnds == authPc = "session" /\ authPc' # "session"

\* C19: when the session call of an auth check (on mount or on a timer
\* tick) fails or returns no session, the check leaves both flags cleared and
\* the page redirected; when it returns a session the flags are set; no
\* other step of a check sets a flag.
C19_FailedCheckRedirects ==
  /\ [][C19_CheckEnds =>
          IF tally'.sessionResult = "session"
          THEN authFlags' = FlagsSet /\ page' = page
          ELSE /\ tally'.sessionResult \in {"none", "error", "throw"}
               /\ authFlags' = FlagsCleared
               /\ page' \in {"leaving", "unmounted"}
               /\ fetches' = fetches /\ chans' = chans]_vars
  /\ [][tally'.sessionCalls # tally.sessionCalls
          => authFlags' = authFlags]_vars

\* a recurring check, after one that passed, got no session: flags cleared,
\* page redirected
C19_Witness ==
  /\ tally.passes = 1 /\ tally.sessionCalls = 2
  /\ tally.sessionResult = "none" /\ authPc = "idle"
  /\ authFlags = FlagsCleared /\ page = "leaving"

\* first loads in flight: fetches that open the realtime listener on return
C20_FirstLoads == {i \in DOMAIN fetches : fetches[i].thenSetup}

\* C20: over the auth checks of one page lifetime, the first successful
\* check starts the one fetch that is followed by the opening of the
\* realtime listener; later successful checks start no fetch and open no
\* channel; so one such fetch or one opened listener exists once a check
\* has passed, and none before.
C20_FirstLoadOnce ==
  /\ [](Cardinality(C20_FirstLoads) + tally.setups
          = IF tally.passes >= 1 THEN 1 ELSE 0)
  /\ [](Len(chans) = tally.setups)
  /\ [][tally'.passes # tally.passes =>
          IF tally.passes = 0
          THEN /\ fetches' = Append(fetches,
                                    [pc |-> "session", thenSetup |-> TRUE,
                                     session |-> NULL, reads |-> 0])
               /\ chans' = chans
          ELSE fetches' = fetches /\ chans' = chans /\ refs' = refs]_vars
  /\ [][Len(chans') > Len(chans)
          => \E i \in C20_FirstLoads : fetches' = RemoveAt(fetches, i)]_vars

\* two checks passed: one listener opened, nothing loading again
C20_Witness ==
  /\ tally.passes = 2 /\ tally.sessionCalls = 2 /\ authPc = "idle"
  /\ tally.setups = 1 /\ Len(chans) = 1 /\ fetches = <<>>
  /\ page = "mounted"

\* the page is mounted, loaded without error and idle, and a stored row is
\* missing from its list
C21_Missed(id) ==
  /\ page = "mounted" /\ id \in DOMAIN store /\ ~HasId(reservations, id)
  /\ fetches = <<>> /\ ~loading /\ error = NULL

\* C21: whatever the channel's status, a stored row missing from the mounted
\* page's list is eventually listed, or a list fetch is eventually started
\* that can bring it.
C21_MissedRowRefetched ==
  \A id \in Ids :
    C21_Missed(id) ~>
      (HasId(reservations, id) \/ fetches # <<>> \/ page # "mounted")

\* call d's status write landed on the row after call c's first write: c's
\* first write changed the row, and c's verification read back d's status
C22_WroteAfter(c, d) ==
  /\ c # d
  /\ call[c].pc = "retry" /\ call[c].changed
  /\ call[d].pc \in {"verify", "retry", "done"}
  /\ call[d].id = call[c].id /\ call[d].changed
  /\ HasStatus(call[d].updates)
  /\ call[d].updates.status # call[c].updates.status
  /\ call[c].id \in DOMAIN store
  /\ call[c].seen = call[d].updates.status
  /\ store[call[c].id].status = call[d].updates.status

\* C22: with two updateReservation calls on one id, the step in which a
\* call's retry write is issued leaves the row's status as it found it: a
\* status another caller wrote after the call's first write is not
\* overwritten.
C22_RetryKeepsLaterWrite ==
  [][\A c, d \in Callers :
       (C22_WroteAfter(c, d) /\ call'[c].pc = "done")
         => store'[call[c].id].status = store[call[c].id].status]_vars

\* the list relation C23 asks of a successful edit of id with fields u
C23_Patched(before, after, id, u) ==
  /\ Len(after) = Len(before)
  /\ \A i \in 1..Len(before) :
       IF before[i].id = id
       THEN /\ DOMAIN after[i] = DOMAIN before[i] \cup DOMAIN u
            /\ \A k \in DOMAIN u : after[i][k] = u[k]
            /\ \A k \in DOMAIN before[i] \ DOMAIN u :
                 after[i][k] = before[i][k]
       ELSE after[i] = before[i]

\* C23: when the store client's result reaches handleStatusChange /
\* handleUpdate, a success patches the entry with the edited id with
\* exactly the requested fields and leaves every other entry as it was,
\* whether or not the edit's change event has been delivered; a failure
\* leaves the list unchanged.
C23_EditPatchesOnSuccess ==
  [][(call[DashCaller].pc = "done" /\ call'[DashCaller].pc = "idle" /\ Alive)
       => IF call[DashCaller].result.success
          THEN C23_Patched(reservations, reservations',
                           call[DashCaller].id, call[DashCaller].updates)
          ELSE reservations' = reservations]_vars

\* an edit of the name has been patched into a two-entry list while its
\* change event is still waiting in the channel
C23_Witness ==
  /\ call[DashCaller].pc = "idle" /\ Len(reservations) = 2
  /\ \E ch \in DOMAIN chans :
       /\ chans[ch].inbox # <<>>
       /\ Head(chans[ch].inbox).type = "UPDATE"
       /\ Head(chans[ch].inbox).new.name = "Bob"
       /\ \E i, j \in 1..2 :
            /\ reservations[i].id = Head(chans[ch].inbox).new.id
            /\ reservations[i].name = "Bob"
            /\ reservations[j].name # "Bob"

\* C24: deleteReservation changes neither list before the backend has
\* answered; when it resumes after a delete without error it removes the
\* entry with the id from the list and from the filtered list, keeps every
\* other entry, and returns true; after an error or an exception both lists
\* are unchanged and it returns false.
C24_DeleteOnlyAfterOk ==
  [][/\ (hook.del.pc = "reply" /\ hook'.del.pc = "done")
          => IF hook.del.outcome = "ok"
             THEN /\ hook'.del.returned
                  /\ hook'.reservations =
                       SelectSeq(hook.reservations,
                                 LAMBDA r : r.id # hook.del.id)
                  /\ hook'.filteredReservations =
                       SelectSeq(hook.filteredReservations,
                                 LAMBDA r : r.id # hook.del.id)
             ELSE /\ ~hook'.del.returned
                  /\ hook'.reservations = hook.reservations
                  /\ hook'.filteredReservations = hook.filteredReservations
     /\ (hook'.del.pc \in {"delete", "reply"} /\ hook'.del # hook.del)
          => /\ hook'.reservations = hook.reservations
             /\ hook'.filteredReservations = hook.filteredReservations]_vars

\* a delete returned true and took its row out of a list that keeps another
\* row, before the DELETE event was handled
C24_Witness ==
  /\ hook.del.pc = "done" /\ hook.del.returned
  /\ hook.del.id \notin DOMAIN store
  /\ Len(hook.reservations) >= 1
  /\ ~HasId(hook.reservations, hook.del.id)
  /\ hookInbox # <<>> /\ Head(hookInbox).type = "DELETE"
  /\ Head(hookInbox).old.id = hook.del.id

\* C25: a step in which an insert or update callback is run with a payload
\* that is not a full row (absent, not an object, or an object without an
\* id) leaves the page's list unchanged.
C25_MalformedDropped ==
  [][\A ch \in DOMAIN chans :
       (/\ ch \in DOMAIN chans'
        /\ chans'[ch].handled # chans[ch].handled
        /\ "payload" \in DOMAIN chans'[ch].handled)
         => reservations' = reservations]_vars

\* C26: a list or update call of the store client to which the backend
\* reported no session, or a session error, has issued no read and no write
\* to the reservations table and ends with {success: false, message: 'Not
\* authenticated'}, whatever the local flags hold.
C26_NoSessionNoStoreAccess ==
  /\ \A i \in DOMAIN fetches :
       fetches[i].session \in {"none", "error"}
         => /\ fetches[i].pc = "result" /\ fetches[i].reads = 0
            /\ fetches[i].result = Fail("Not authenticated")
  /\ \A c \in Callers :
       (call[c].pc # "idle" /\ call[c].session \in {"none", "error"})
         => /\ call[c].pc = "done"
            /\ call[c].nwrites = 0 /\ call[c].nreads = 0
            /\ call[c].result = Fail("Not authenticated")

\* with the local flags set and the list loaded, an edit of a listed row
\* was refused for a session error before any write
C26_Witness ==
  /\ isAuthenticated /\ page = "mounted"
  /\ call[DashCaller].pc = "done" /\ call[DashCaller].session = "error"
  /\ ~call[DashCaller].result.success
  /\ HasId(reservations, call[DashCaller].id)
  /\ call[DashCaller].id \in DOMAIN store

\* the store is empty and the page has loaded the empty list: the first
\* fetch has been made and has returned, nothing is loading, no error
C27_SettledEmpty ==
  /\ store = <<>> /\ page = "mounted"
  /\ refs.authChecked /\ refs.dataFetchAttempted
  /\ fetches = <<>> /\ ~loading /\ error = NULL
  /\ reservations = <<>>

\* C27: once the page has loaded the empty list of an empty store, a step
\* that is no user action, timer tick or realtime event starts no list fetch
\* and leaves loading false.
C27_EmptyListSettles ==
  [][C27_SettledEmpty => (fetches' = <<>> /\ ~loading')]_vars

\* C28: the step in which the only list fetch in flight completes
\* successfully leaves the page's error null, also when the loading timeout
\* fired while the fetch was in flight.
C28_LoadedMeansNoError ==
  [][(/\ page = "mounted" /\ Len(fetches) = 1
      /\ fetches[1].pc = "result" /\ fetches[1].result.success
      /\ fetches' = <<>>)
       => error' = NULL]_vars

\* C29: while the page is mounted, every channel that is subscribed and not being
\* removed is the one the single-slot reference points to.
C29_RefPointsToLiveChannel ==
  \A ch \in DOMAIN chans :
    (page = "mounted" /\ chans[ch].state = "joined") => refs.channel = ch

\* C30: once the page's unmount cleanup has run, a resubscribe timer that
\* fires creates no realtime channel.
C30_NoChannelAfterUnmount ==
  [][(page = "unmounted" /\ resubTimers' < resubTimers)
       => Len(chans') = Len(chans)]_vars

\* C31: once logout has cleared the local flags, a step that is not the
\* return of a backend-verified auth check leaves them cleared; the delivery
\* of a realtime insert event is such a step.
C31_FlagsStayCleared ==
  [][(/\ logout = "done" /\ authFlags = FlagsCleared
      /\ ~(authPc = "session" /\ authPc' # "session"))
       => authFlags' = FlagsCleared]_vars

\* C32: while every fetch of useDashboard fails, the retry timer fires at
\* most 3 times: retryCount, which each firing raises by one and only a
\* successful fetch resets, never exceeds 3.
C32_RetriesBounded == hook.retryCount <= 3

\* the page is mounted and loaded, its channel is subscribed, and nothing
\* is in flight: no update call, no legacy request, no fetch, no undelivered
\* event
C33_Quiescent ==
  /\ page = "mounted" /\ ~loading /\ error = NULL /\ fetches = <<>>
  /\ \A c \in Callers : call[c].pc = "idle"
  /\ legacy.pc = "idle"
  /\ refs.channel \in DOMAIN chans /\ chans[refs.channel].state = "joined"
  /\ \A ch \in DOMAIN chans : chans[ch].inbox = <<>>

\* C33: at quiescence each entry of the page's list equals the stored row
\* with its id; checked for the entry whose update event the page's one
\* channel handled last, a row whose every later event the page has seen.
C33_QuiescentListMatchesStore ==
  C33_Quiescent =>
    \A i \in 1..Len(reservations) :
      (/\ tally.setups = 1
       /\ chans[refs.channel].handled.type = "UPDATE"
       /\ chans[refs.channel].handled.id = reservations[i].id)
        => /\ reservations[i].id \in DOMAIN store
           /\ reservations[i] =
                transformReservationRecord(
                  EventRow(reservations[i].id, store[reservations[i].id]))

\* the relay chain has ended: no webhook request queued, no invocation
\* running, no edit in flight, and no stored row carries the marker
C34_Ended ==
  /\ relayQueue = <<>> /\ relays = <<>>
  /\ call[DashCaller].pc = "idle"
  /\ \A id \in DOMAIN store : store[id].manual_update = NULL

\* C34: with the marker-aware relay, each dashboard status edit is followed
\* by at most two relay invocations on update events (the edit's event and
\* the event of the clearing write); the stored status stays the one the
\* edit wrote and the clearing write changes no status;
\* and the chain ends, with no request queued, no invocation running and
\* the marker cleared on every row.
C34_RelayChainEnds ==
  /\ [](posts.UPDATE <= 2 * C12_Edits)
  /\ [](call[DashCaller].pc \in {"verify", "done"}
          => store[call[DashCaller].id].status
               = call[DashCaller].updates.status)
  /\ [][\A i \in DOMAIN relays :
          (i \in DOMAIN relays' /\ relays[i].pc = "clear"
           /\ relays'[i].pc = "post")
            => \A id \in DOMAIN store :
                 store'[id].status = store[id].status]_vars
  /\ <>[]C34_Ended

\* one edit to Confirmed, two update invocations posted, the chain ended
\* with the marker cleared and the status kept
C34_Witness ==
  /\ C12_Edits = 1 /\ posts.UPDATE = 2 /\ C34_Ended
  /\ 1 \in DOMAIN store /\ store[1].status = "Confirmed"
====
